---- MODULE Spec2Model ----
(***************************************************************************)
(* A model of repo-pack: the path-safe writer (src/src/download.rs), the   *)
(* listing service (src/src/provider/github.rs) and the download           *)
(* orchestrator (src/src/download.rs, src/src/main.rs).                    *)
(*                                                                         *)
(* Strings are sequences of one-character strings, so that substring       *)
(* search, prefix tests, splitting and joining are computed as the code    *)
(* computes them.  Str("a/b") is written <<"a","/","b">>.                  *)
(***************************************************************************)
EXTENDS Integers, Sequences, FiniteSets, TLC

(***************************************************************************)
(* Bounds of the model.                                                    *)
(***************************************************************************)
\* longest file path given to save_file, in path tokens
MaxTokens == 4
\* the most files download_files is given
NumFiles == 3
\* the largest concurrency_limit
MaxLimit == 2
\* the most segments in the dir of a locator
MaxDirSegs == 3
\* the most segments of a locator's path after the owner and the repository
MaxSegs == 4

(***************************************************************************)
(* String helpers (Rust str methods).                                      *)
(***************************************************************************)
Slash == "/"
Dot == "."

\* s[i..] for a 1-based index i
DropFirst(s, n) == SubSeq(s, n + 1, Len(s))

\* str::starts_with
StartsWith(s, p) == Len(p) <= Len(s) /\ SubSeq(s, 1, Len(p)) = p

\* str::ends_with
EndsWith(s, p) == Len(p) <= Len(s) /\ SubSeq(s, Len(s) - Len(p) + 1, Len(s)) = p

\* str::find: the 1-based index of the first occurrence of p in s, 0 for None
Find(s, p) ==
  LET hits == {i \in 1..(Len(s) - Len(p) + 1) : SubSeq(s, i, i + Len(p) - 1) = p}
  IN IF hits = {} THEN 0 ELSE CHOOSE i \in hits : \A j \in hits : i <= j

\* str::split('/'): the pieces between separators, empty pieces included
RECURSIVE SplitSlash(_)
SplitSlash(s) ==
  LET i == Find(s, <<Slash>>)
  IN IF i = 0 THEN <<s>>
     ELSE <<SubSeq(s, 1, i - 1)>> \o SplitSlash(DropFirst(s, i))

\* .filter(|s| !s.is_empty())
RECURSIVE NonEmpty(_)
NonEmpty(segs) ==
  IF segs = <<>> THEN <<>>
  ELSE IF Head(segs) = <<>> THEN NonEmpty(Tail(segs))
  ELSE <<Head(segs)>> \o NonEmpty(Tail(segs))

\* [String]::join("/")
RECURSIVE JoinSlash(_)
JoinSlash(segs) ==
  IF segs = <<>> THEN <<>>
  ELSE IF Len(segs) = 1 THEN Head(segs)
  ELSE Head(segs) \o <<Slash>> \o JoinSlash(Tail(segs))

\* all sequences over S of length at most n
RECURSIVE SeqsUpTo(_, _)
SeqsUpTo(S, n) ==
  IF n = 0 THEN {<<>>}
  ELSE LET shorter == SeqsUpTo(S, n - 1)
       IN shorter \cup {Append(q, x) : q \in {r \in shorter : Len(r) = n - 1}, x \in S}

(***************************************************************************)
(* std::path: a path's components.  RootDir is the component <<"/">>,      *)
(* CurDir <<".">>, ParentDir <<".", ".">>; any other component is Normal.  *)
(***************************************************************************)
RootDir == <<Slash>>
CurDir == <<Dot>>
ParentDir == <<Dot, Dot>>

IsNormal(c) == c # RootDir /\ c # CurDir /\ c # ParentDir

\* drop every "." piece
RECURSIVE DropCurDir(_)
DropCurDir(segs) ==
  IF segs = <<>> THEN <<>>
  ELSE IF Head(segs) = CurDir THEN DropCurDir(Tail(segs))
  ELSE <<Head(segs)>> \o DropCurDir(Tail(segs))

\* Path::components(): repeated and trailing separators and every "." but a
\* leading one of a relative path are normalized away; ".." is kept
ComponentsOf(has_root, segs) ==
  IF has_root THEN <<RootDir>> \o DropCurDir(segs)
  ELSE IF segs # <<>> /\ Head(segs) = CurDir
       THEN <<CurDir>> \o DropCurDir(Tail(segs))
       ELSE DropCurDir(segs)

Components(s) == ComponentsOf(StartsWith(s, <<Slash>>), NonEmpty(SplitSlash(s)))

\* components.collect::<PathBuf>().to_string_lossy(): the path's text rebuilt
\* from its components
PathString(comps) ==
  IF comps # <<>> /\ Head(comps) = RootDir
  THEN <<Slash>> \o JoinSlash(Tail(comps))
  ELSE JoinSlash(comps)

\* Path::join: an absolute right-hand side replaces the left-hand side
JoinPath(base, rel) ==
  IF StartsWith(rel, <<Slash>>) THEN rel
  ELSE IF base = <<>> THEN rel
  ELSE IF EndsWith(base, <<Slash>>) THEN base \o rel
  ELSE base \o <<Slash>> \o rel

\* some component is ParentDir or CurDir
HasDots(comps) == \E i \in 1..Len(comps) : comps[i] = ParentDir \/ comps[i] = CurDir

\* needs_normalization
needs_normalization(s) == HasDots(Components(s))

\* the loop of normalize_path over the components
RECURSIVE NormalizeLoop(_, _)
NormalizeLoop(normalized, rest) ==
  IF rest = <<>> THEN normalized
  ELSE IF Head(rest) = CurDir THEN NormalizeLoop(normalized, Tail(rest))
  ELSE IF Head(rest) = ParentDir /\ normalized # <<>>
          /\ IsNormal(normalized[Len(normalized)])
       THEN NormalizeLoop(SubSeq(normalized, 1, Len(normalized) - 1), Tail(rest))
       ELSE NormalizeLoop(Append(normalized, Head(rest)), Tail(rest))

\* normalize_path on a path's components: untouched when no component is
\* "." or ".."
NormalizeComponents(comps) ==
  IF ~HasDots(comps) THEN comps ELSE NormalizeLoop(<<>>, comps)

\* normalize_path, as the components of the path it returns
normalize_path(s) == NormalizeComponents(Components(s))

(***************************************************************************)
(* Results: Ok(v) and Err(e).                                              *)
(***************************************************************************)
Ok(v) == [ok |-> TRUE, val |-> v]
Err(e) == [ok |-> FALSE, err |-> e]

\* a suffix that starts after the anchor and its separator
ExtractAfterAnchor(index, base_dir, file_path) ==
  IF index # 0 THEN Ok(DropFirst(file_path, index + Len(base_dir)))
  ELSE IF EndsWith(file_path, base_dir) THEN Ok(<<>>)
  ELSE Err("PathTraversal")

\* extract_relative_path from the search on (download.rs:74-85); index is
\* the position find returned, 0 for None
ExtractAt(index, base_dir, file_path) ==
  IF index # 0 THEN Ok(DropFirst(file_path, index - 1))
  ELSE IF EndsWith(file_path, base_dir) THEN Ok(<<>>)
  ELSE Err("PathTraversal")

\* the 1-based index of the last occurrence of p in s, 0 for None
FindLast(s, p) ==
  IF Find(s, p) = 0 THEN 0
  ELSE CHOOSE i \in 1..(Len(s) - Len(p) + 1) :
         /\ SubSeq(s, i, i + Len(p) - 1) = p
         /\ \A j \in (i + 1)..(Len(s) - Len(p) + 1) : SubSeq(s, j, j + Len(p) - 1) # p

\* a search that takes the last "{base_dir}/" of file_path
ExtractSearchLast(base_dir, file_path) ==
  ExtractAt(FindLast(file_path, base_dir \o <<Slash>>), base_dir, file_path)

\* the search for "{base_dir}/" in file_path (download.rs:72-74)
ExtractSearch(base_dir, file_path) ==
  ExtractAt(Find(file_path, base_dir \o <<Slash>>), base_dir, file_path)

\* extract_relative_path
extract_relative_path(base_dir, file_path) ==
  IF needs_normalization(base_dir) \/ needs_normalization(file_path)
  THEN ExtractSearch(PathString(Components(base_dir)), PathString(Components(file_path)))
  ELSE ExtractSearch(base_dir, file_path)

(***************************************************************************)
(* The file system save_file writes to.  A location is the component       *)
(* sequence the operating system resolves a path to: relative to the       *)
(* working directory (leading ".." components climb above it) or starting  *)
(* at RootDir.  fs.files is a set of [loc, content], fs.dirs the set of    *)
(* directories that were created; the working directory, its ancestors     *)
(* and the root always exist.                                              *)
(***************************************************************************)
EmptyFs == [files |-> {}, dirs |-> {}]

\* the location a component sequence names: ".." directly under the root
\* stays at the root
RECURSIVE Location(_)
Location(comps) ==
  IF Len(comps) >= 2 /\ comps[1] = RootDir /\ comps[2] = ParentDir
  THEN Location(<<RootDir>> \o SubSeq(comps, 3, Len(comps)))
  ELSE comps

IsPrefix(p, q) == Len(p) <= Len(q) /\ SubSeq(q, 1, Len(p)) = p

Prefixes(loc) == {SubSeq(loc, 1, n) : n \in 1..Len(loc)}

IsFile(fs, loc) == \E f \in fs.files : f.loc = loc

\* a directory that exists: created, or the root, or the working directory
\* or one of its ancestors
IsDir(fs, loc) ==
  \/ loc \in fs.dirs
  \/ \A i \in 1..Len(loc) : ~IsNormal(loc[i])

\* Path::parent: None (<<"None">>) for the empty path and for the root
NoParent == <<"None">>
Parent(comps) ==
  IF comps = <<>> \/ comps = <<RootDir>> THEN NoParent
  ELSE SubSeq(comps, 1, Len(comps) - 1)

\* fs::create_dir_all: fails when an ancestor is a file, creates every
\* missing ancestor otherwise
MakeDirs(fs, loc) ==
  IF \E p \in Prefixes(loc) : IsFile(fs, p) THEN Err("IoError")
  ELSE Ok([fs EXCEPT !.dirs = @ \cup {p \in Prefixes(loc) : ~IsDir(fs, p)}])

create_dir_all(fs, comps) == MakeDirs(fs, Location(comps))

\* a write that leaves a file that is already there as it is
WriteAtKeeping(fs, loc, trailing, content) ==
  IF loc = <<>> \/ trailing \/ IsDir(fs, loc) \/ ~IsNormal(loc[Len(loc)])
     \/ ~IsDir(fs, SubSeq(loc, 1, Len(loc) - 1))
  THEN Err("IoError")
  ELSE IF IsFile(fs, loc) THEN Ok(fs)
  ELSE Ok([fs EXCEPT !.files = @ \cup {[loc |-> loc, content |-> content]}])

\* fs::write: creates or truncates the file; fails on a directory, on the
\* empty path and on a path with a trailing separator
WriteAt(fs, loc, trailing, content) ==
  IF loc = <<>> \/ trailing \/ IsDir(fs, loc) \/ ~IsNormal(loc[Len(loc)])
     \/ ~IsDir(fs, SubSeq(loc, 1, Len(loc) - 1))
  THEN Err("IoError")
  ELSE Ok([fs EXCEPT !.files = {f \in @ : f.loc # loc}
                                \cup {[loc |-> loc, content |-> content]}])

write(fs, comps, trailing, content) == WriteAt(fs, Location(comps), trailing, content)

\* the containment check of save_file: true when the path is rejected
OutsideOutputDir(full_components, output_components) ==
  \/ Len(full_components) < Len(output_components)
  \/ ~(\A i \in 1..Len(output_components) : full_components[i] = output_components[i])

\* the text of the path ends with a separator or with a separator and ".":
\* the operating system takes what comes before for a directory
NamesDirectory(s) == EndsWith(s, <<Slash>>) \/ EndsWith(s, <<Slash, ".">>)

\* A call of save_file is the record c of its arguments: base_dir,
\* file_path, content, output_dir.
\* output_dir.join(adjusted_path) (download.rs:98-100)
SaveJoined(c) ==
  JoinPath(c.output_dir, extract_relative_path(c.base_dir, c.file_path).val)

\* save_file returns PathTraversal: the relative path could not be
\* extracted, or the containment check fails (download.rs:98, 104-121)
SaveRejected(c) ==
  \/ ~extract_relative_path(c.base_dir, c.file_path).ok
  \/ OutsideOutputDir(normalize_path(SaveJoined(c)), normalize_path(c.output_dir))

\* full_path after the normalization (download.rs:100-102)
SaveFullPath(c) == normalize_path(SaveJoined(c))

\* create_dir_all(parent) of save_file (download.rs:125-126)
DirsMade(c, f) == create_dir_all(f, Parent(SaveFullPath(c)))

\* fs::write(&full_path, content) of save_file (download.rs:134); a path
\* that needs no normalization is written as its text is, a trailing
\* separator or "/." included
Written(c, f) ==
  write(f, SaveFullPath(c),
        ~needs_normalization(SaveJoined(c)) /\ NamesDirectory(SaveJoined(c)),
        c.content)

(***************************************************************************)
(* Inputs of the path-safe writer.                                         *)
(***************************************************************************)
\* the pieces file paths are built from: the anchor "s", a name that ends
\* with the anchor's text, another name, "..", "." and the empty piece
PathTokens == {<<"s">>, <<"e", "s">>, <<"e">>, ParentDir, CurDir, <<>>}

FilePaths == {JoinSlash(q) : q \in SeqsUpTo(PathTokens, MaxTokens)}

\* output directories: the default "." (src/src/cli.rs:28), relative,
\* absolute, with "..", the root
OutputDirs ==
  { <<".">>, <<"o">>, <<"/", "o">>, <<".", ".", "/", "o">>, <<"/">> }

Anchors == {<<"s">>, <<>>}

Contents == {"new"}

\* the file system before the call: empty, or holding an earlier download
InitialFs(output_dir) ==
  { EmptyFs,
    [files |-> {[loc |-> Location(normalize_path(JoinPath(output_dir, <<"s", "/", "e">>))),
                 content |-> "old"]},
     dirs |-> Prefixes(Location(normalize_path(JoinPath(output_dir, <<"s">>))))] }

(***************************************************************************)
(* Inputs of the download orchestrator.                                    *)
(***************************************************************************)
\* the i-th listed file: "s/e", "s/ee", "s/eee", ...
ListedPath(i) == <<"s", Slash>> \o [j \in 1..i |-> "e"]

\* a path the anchor "s" does not occur in
UnanchoredPath == <<"e">>

\* the file lists download_files is given: n listed files, or the same list
\* with an unanchored first path
FileLists(n) ==
  { [i \in 1..n |-> ListedPath(i)],
    [i \in 1..n |-> IF i = 1 THEN UnanchoredPath ELSE ListedPath(i)] }

DlOutputDir == <<"o">>
DlBaseDir == <<"s">>

\* an output directory that already holds the first k listed files and,
\* with dir_next, a directory where the next listed file would be written
FsWithFirst(k, dir_next) ==
  [files |-> {[loc |-> Components(JoinPath(DlOutputDir, ListedPath(i))), content |-> "old"]
                : i \in 1..k},
   dirs |-> (IF k = 0 /\ ~dir_next THEN {}
             ELSE {<<DlOutputDir>>, <<DlOutputDir, <<"s">>>>})
            \cup (IF dir_next THEN {Components(JoinPath(DlOutputDir, ListedPath(k + 1)))}
                  ELSE {})]

\* the output directories a run of n files may start on: the first k files
\* are there, or a directory stands at the path of the first
OutputsBefore(n) == {FsWithFirst(k, FALSE) : k \in 0..n} \cup {FsWithFirst(0, TRUE)}

\* Path::exists, on the location the path resolves to
ExistsAt(fs, loc) == IsFile(fs, loc) \/ IsDir(fs, loc)

\* one component further on the way the operating system walks a path
StepTo(cur, c) ==
  IF c = RootDir THEN <<RootDir>>
  ELSE IF c = CurDir THEN cur
  ELSE IF c = ParentDir
       THEN IF cur = <<RootDir>> THEN cur
            ELSE IF cur = <<>> \/ cur[Len(cur)] = ParentDir THEN Append(cur, ParentDir)
            ELSE SubSeq(cur, 1, Len(cur) - 1)
  ELSE Append(cur, c)

\* the location the operating system resolves the components to, from cur:
\* every component is looked up in a directory that exists
RECURSIVE Resolve(_, _, _)
Resolve(fs, cur, rest) ==
  IF rest = <<>> THEN Ok(cur)
  ELSE IF ~IsDir(fs, cur) THEN Err("IoError")
  ELSE Resolve(fs, StepTo(cur, Head(rest)), Tail(rest))

ExistsResolved(fs, resolved, directory) ==
  /\ resolved.ok
  /\ ExistsAt(fs, resolved.val)
  /\ directory => IsDir(fs, resolved.val)

\* Path::exists on the text of the path: the empty path does not exist
Exists(fs, s) ==
  /\ s # <<>>
  /\ ExistsResolved(fs, Resolve(fs, <<>>, Components(s)), NamesDirectory(s))

(***************************************************************************)
(* The remote repository and the two listing calls.                        *)
(***************************************************************************)
\* every entry a repository of the model can hold, in the order the tree
\* listing returns them
AllEntries ==
  << [type |-> "tree",   path |-> <<"d">>],
     [type |-> "blob",   path |-> <<"d", "/", "a">>],
     [type |-> "commit", path |-> <<"d", "/", "m">>],
     [type |-> "tree",   path |-> <<"d", "/", "s">>],
     [type |-> "blob",   path |-> <<"d", "/", "s", "/", "b">>],
     [type |-> "tree",   path |-> <<"d", "2">>],
     [type |-> "blob",   path |-> <<"d", "2", "/", "x">>] >>

Leaves == {AllEntries[i].path : i \in {j \in 1..Len(AllEntries) : AllEntries[j].type # "tree"}}

\* the entry is in a repository whose files and submodules are leaves
Present(leaves, e) ==
  IF e.type = "tree" THEN \E l \in leaves : StartsWith(l, e.path \o <<Slash>>)
  ELSE e.path \in leaves

RECURSIVE PresentEntries(_, _)
PresentEntries(leaves, entries) ==
  IF entries = <<>> THEN <<>>
  ELSE IF Present(leaves, Head(entries))
       THEN <<Head(entries)>> \o PresentEntries(leaves, Tail(entries))
       ELSE PresentEntries(leaves, Tail(entries))

\* the recursive tree of the repository
FullTree(leaves) == PresentEntries(leaves, AllEntries)

\* the HTTP outcomes of an API call that the code tells apart
ApiFaults == {"403", "403-rate-limit", "429", "500"}

\* api_request: the error a response status is mapped to (github.rs:204-247)
ApiError(status) ==
  IF status = "403-rate-limit" \/ status = "429" THEN "RateLimited"
  ELSE IF status = "403" THEN "AuthRequired"
  ELSE IF status = "404" THEN "NotFound"
  ELSE "DownloadFailed"

\* the server's answer to git/trees/{ref}?recursive=1: the tree of the ref,
\* cut after rem.shown entries and flagged truncated when cut
TreesResponse(rem, git_ref, fault) ==
  IF fault # "none" THEN [status |-> fault, tree |-> <<>>, truncated |-> FALSE]
  ELSE IF git_ref # rem.ref THEN [status |-> "404", tree |-> <<>>, truncated |-> FALSE]
  ELSE [status |-> "200",
        tree |-> SubSeq(FullTree(rem.leaves), 1, rem.shown),
        truncated |-> rem.shown < Len(FullTree(rem.leaves))]

\* .filter(|item| item.item_type == "blob" && (dir_prefix.is_empty() ||
\* item.path.starts_with(&dir_prefix))).map(|item| item.path)
RECURSIVE FilterTree(_, _)
FilterTree(tree, dir_prefix) ==
  IF tree = <<>> THEN <<>>
  ELSE IF Head(tree).type = "blob"
          /\ (dir_prefix = <<>> \/ StartsWith(Head(tree).path, dir_prefix))
       THEN <<Head(tree).path>> \o FilterTree(Tail(tree), dir_prefix)
       ELSE FilterTree(Tail(tree), dir_prefix)

\* a prefix that lacks the closing separator
DirPrefixNoSlash(dir) == dir

\* dir_prefix of via_trees_api (github.rs:123-129)
DirPrefix(dir) ==
  IF dir = <<>> THEN <<>>
  ELSE IF EndsWith(dir, <<Slash>>) THEN dir
  ELSE dir \o <<Slash>>

\* via_trees_api on the response to its request
via_trees_api(url, response) ==
  IF response.status # "200" THEN Err(ApiError(response.status))
  ELSE Ok([files |-> FilterTree(response.tree, DirPrefix(url.dir)),
           truncated |-> response.truncated])

\* the directory an entry lies in
ParentDirOf(path) == JoinSlash(SubSeq(SplitSlash(path), 1, Len(SplitSlash(path)) - 1))

\* the type the contents API gives an entry
ContentType(type) ==
  IF type = "blob" THEN "file" ELSE IF type = "tree" THEN "dir" ELSE "submodule"

RECURSIVE ChildrenOf(_, _)
ChildrenOf(dir, entries) ==
  IF entries = <<>> THEN <<>>
  ELSE IF ParentDirOf(Head(entries).path) = dir
       THEN <<[type |-> ContentType(Head(entries).type), path |-> Head(entries).path]>>
            \o ChildrenOf(dir, Tail(entries))
       ELSE ChildrenOf(dir, Tail(entries))

\* the server's answer to contents/{dir}?ref={ref}: the entries directly in
\* dir; 404 for an unknown ref or path; for a file a single object, which
\* does not deserialize as a list
ContentsResponse(rem, git_ref, dir) ==
  IF git_ref # rem.ref THEN [status |-> "404", items |-> <<>>]
  ELSE IF Present(rem.leaves, [type |-> "tree", path |-> dir])
       THEN [status |-> "200", items |-> ChildrenOf(dir, FullTree(rem.leaves))]
  ELSE IF dir \in rem.leaves THEN [status |-> "not-a-list", items |-> <<>>]
  ELSE [status |-> "404", items |-> <<>>]

\* via_contents_api: files are pushed, directories are listed in turn,
\* anything else is ignored; the first failing call ends the walk
RECURSIVE via_contents_api(_, _, _)
RECURSIVE ContentsItems(_, _, _, _)

\* the walk after a sub-directory was listed (github.rs:173-174)
ContentsSub(rem, git_ref, rest, files, sub_files) ==
  IF ~sub_files.ok THEN sub_files
  ELSE ContentsItems(rem, git_ref, rest, files \o sub_files.val)

\* the loop over the items of one directory (github.rs:166-180)
ContentsItems(rem, git_ref, items, files) ==
  IF items = <<>> THEN Ok(files)
  ELSE IF Head(items).type = "file"
       THEN ContentsItems(rem, git_ref, Tail(items), Append(files, Head(items).path))
  ELSE IF Head(items).type = "dir"
       THEN ContentsSub(rem, git_ref, Tail(items), files,
                        via_contents_api(rem, git_ref, Head(items).path))
  ELSE ContentsItems(rem, git_ref, Tail(items), files)

\* via_contents_api on the response to its request
ContentsOf(rem, git_ref, response) ==
  IF response.status # "200" THEN Err(ApiError(response.status))
  ELSE ContentsItems(rem, git_ref, response.items, <<>>)

via_contents_api(rem, git_ref, dir) ==
  ContentsOf(rem, git_ref, ContentsResponse(rem, git_ref, dir))

\* urlencoding::decode, for the one escape the model's locators hold: "%2F"
\* is the separator
RECURSIVE PercentDecode(_)
PercentDecode(s) ==
  IF s = <<>> THEN <<>>
  ELSE IF StartsWith(s, <<"%", "2", "F">>) THEN <<Slash>> \o PercentDecode(DropFirst(s, 3))
  ELSE <<Head(s)>> \o PercentDecode(Tail(s))

\* Path::file_name: the last component when it is a normal one
HasFileName(comps) == comps # <<>> /\ IsNormal(comps[Len(comps)])

\* base_dir of main (main.rs:58-61)
BaseDirOf(dir) ==
  IF HasFileName(Components(dir)) THEN Components(dir)[Len(Components(dir))] ELSE dir

(***************************************************************************)
(* Inputs of the listing service.                                          *)
(***************************************************************************)
DirSegments == {<<"d">>, <<"s">>}

\* the dir of the locator: up to MaxDirSegs segments, or a dir with an
\* escaped separator
ListDirs ==
  {JoinSlash(q) : q \in SeqsUpTo(DirSegments, MaxDirSegs)}
    \cup {<<"d", "%", "2", "F", "s">>}

StartRef == <<"r">>
NoRef == <<"?">>

\* the refs the repository may really have, for a locator with this dir: the
\* start ref extended by the first k segments, or none of them
TrueRefs(dir) ==
  {JoinSlash(<<StartRef>> \o SubSeq(NonEmpty(SplitSlash(PercentDecode(dir))), 1, k))
     : k \in 0..Len(NonEmpty(SplitSlash(PercentDecode(dir))))}
    \cup {NoRef}

(***************************************************************************)
(* Locators and ParsedUrl::parse.  A locator is a URL: a scheme (empty     *)
(* when the text has none), a host and the segments of its path, the       *)
(* pieces of text between the separators.                                  *)
(***************************************************************************)
Some(v) == [some |-> TRUE, val |-> v]
None == [some |-> FALSE, val |-> <<>>]

TreeMarker == <<"t", "r", "e", "e">>
BlobMarker == <<"b", "l", "o", "b">>

\* the path segments of url::Url for a special scheme: "." is dropped, ".."
\* drops the segment before it, and either leaves an empty segment when it
\* is the last one
RECURSIVE UrlSegments(_, _)
UrlSegments(out, rest) ==
  IF rest = <<>> THEN out
  ELSE IF Head(rest) = ParentDir
       THEN UrlSegments(IF Len(rest) = 1
                        THEN SubSeq(out, 1, Len(out) - 1) \o << <<>> >>
                        ELSE SubSeq(out, 1, Len(out) - 1),
                        Tail(rest))
  ELSE IF Head(rest) = CurDir
       THEN UrlSegments(IF Len(rest) = 1 THEN out \o << <<>> >> ELSE out, Tail(rest))
  ELSE UrlSegments(Append(out, Head(rest)), Tail(rest))

\* url.path(): the segments, each after a separator; "/" when there is none
UrlPath(segs) ==
  IF UrlSegments(<<>>, segs) = <<>> THEN <<Slash>>
  ELSE <<Slash>> \o JoinSlash(UrlSegments(<<>>, segs))

\* a dir that keeps the separator after each segment
DirWithSeparators(parts) ==
  IF Len(parts) > 4 THEN JoinSlash(SubSeq(parts, 5, Len(parts))) \o <<Slash>> ELSE <<>>

\* dir of a locator with the tree marker (url.rs:58-62)
DirAfterRef(parts) == JoinSlash(SubSeq(parts, 5, Len(parts)))

\* ParsedUrl::parse from parts on (url.rs:40-82)
ParseParts(parts) ==
  IF Len(parts) < 2 THEN Err("InvalidUrl")
  ELSE IF Len(parts) > 2 /\ parts[3] = TreeMarker
       THEN IF Len(parts) < 4 THEN Err("InvalidUrl")
            ELSE Ok([owner |-> parts[1], repo |-> parts[2],
                     git_ref |-> Some(parts[4]), dir |-> DirAfterRef(parts)])
  ELSE Ok([owner |-> parts[1], repo |-> parts[2], git_ref |-> None,
           dir |-> JoinSlash(SubSeq(parts, 3, Len(parts)))])

\* ParsedUrl::parse from the path on (url.rs:28-82)
ParsePath(path) ==
  IF Find(path, <<Slash>> \o BlobMarker \o <<Slash>>) # 0 THEN Err("InvalidUrl")
  ELSE ParseParts(NonEmpty(SplitSlash(path)))

\* a host url::Url::parse accepts: a space is a forbidden host code point
ValidHost(host) == \A k \in DOMAIN host : host[k] # " "

\* url::Url::parse succeeds: the text has a scheme and its host is a host
IsUrl(locator) == locator.scheme # <<>> /\ ValidHost(locator.host)

\* parse as it would be if only the host g were taken
ParseGithubOnly(locator) ==
  IF ~IsUrl(locator) \/ locator.host # <<"g">> THEN Err("InvalidUrl")
  ELSE ParsePath(UrlPath(locator.segs))

\* ParsedUrl::parse: url::Url::parse fails on a text without a scheme or
\* with a host that is none; the host plays no further part
parse(locator) ==
  IF ~IsUrl(locator) THEN Err("InvalidUrl")
  ELSE ParsePath(UrlPath(locator.segs))

\* ParsedUrl::needs_default_branch
needs_default_branch(parsed) == ~parsed.git_ref.some

(***************************************************************************)
(* Inputs of ParsedUrl::parse.                                             *)
(***************************************************************************)
Schemes == {<<"h", "t", "t", "p", "s">>, <<>>}
Hosts == {<<"g">>, <<"x">>, <<" ">>}

\* what a path begins with: nothing, an owner, an owner and a repository
LocatorHeads == {<<>>, << <<"o">> >>, << <<"o">>, <<"p">> >>}

\* the pieces the rest of a path is built from: the two markers, a ref, a
\* directory, "..", and the empty piece of a doubled or trailing separator
LocatorTokens == {TreeMarker, BlobMarker, <<"r">>, <<"d">>, ParentDir, <<>>}

Locators ==
  {[scheme |-> s, host |-> h, segs |-> head \o rest] :
     s \in Schemes, h \in Hosts, head \in LocatorHeads,
     rest \in SeqsUpTo(LocatorTokens, MaxSegs)}

(***************************************************************************)
(* State.                                                                  *)
(***************************************************************************)
VARIABLES
  sv_pc,      \* save_file: "call" before the call; "mkdir" and "write" while
              \* that operation is with the blocking pool; "made",
              \* "mkdir_failed", "wrote", "write_failed" once it ran and
              \* save_file has not read its answer; "done" after the call
  sv_in,      \* save_file's arguments [base_dir, file_path, content, output_dir]
  sv_res,     \* save_file's result
  fs0,        \* the file system before the call or run
  fs,         \* the file system
  dl,         \* download_files' arguments [files, limit, resume, base_dir, output_dir]
  pc,         \* each unit's position: "queued", "acquire", "check2", "fetch",
              \* "mkdir", "made", "mkdir_failed", "write", "wrote",
              \* "write_failed", "done"
  outcome,    \* each unit's DownloadStatus once it has one, "none" before
  fetches,    \* the number of raw-content requests each unit has issued
  body,       \* the content each unit fetched
  permits,    \* the semaphore's available permits
  cancelled,  \* the shared cancellation flag
  sigint,     \* the interrupt signal: "none", "raised", "delivered" (the
              \* ctrl_c future of download_files is ready)
  orch_pc,    \* download_files: "idle", "loop", "returned"
  result,     \* the DownloadResult being built
  dropped,    \* the units whose futures were dropped unfinished
  remote,     \* the repository [ref, leaves, shown]
  url0,       \* the locator list_files was called with
  url,        \* parsed_url, which list_files mutates
  dir_parts,  \* list_files' dir_parts
  lf_pc,      \* list_files: "idle", "call", "trees" and "contents" while that
              \* request is in flight, "done"
  lf_res,     \* list_files' result
  api_log,    \* the listing calls made so far, each with its result
  main_pc,    \* main: "config" and "parse" before that step, "list", "failed",
              \* "no_files", "dry_run", "download"
  config,     \* what Config::load returned to main
  pu_pc,      \* ParsedUrl::parse: "idle", "call" before the call, "done" after
              \* it, "set" once set_git_ref was called on its result
  pu_in,      \* the locator parse is called with
  pu_res,     \* parse's result
  rq_pc,      \* a call of the provider: "idle", "call" before it; "api", "raw"
              \* and "media" while that request waits for its answer; "done"
              \* after the call
  rq_in,      \* the call: api_request or download_file, its arguments, the
              \* credential of the run and what the server answers
  rq_res,     \* the call's result
  sent        \* the requests the call has sent, each with its headers

sv_vars == <<sv_pc, sv_in, sv_res>>
fs_vars == <<fs0, fs>>
dl_vars == <<dl, pc, outcome, fetches, body, permits, cancelled, sigint, orch_pc,
             result, dropped>>

lf_vars == <<remote, url0, url, dir_parts, lf_pc, lf_res, api_log, main_pc, config>>
pu_vars == <<pu_pc, pu_in, pu_res>>
rq_vars == <<rq_pc, rq_in, rq_res, sent>>

vars == <<sv_pc, sv_in, sv_res, fs0, fs, dl, pc, outcome, fetches, body, permits,
          cancelled, sigint, orch_pc, result, dropped, remote, url0, url, dir_parts,
          lf_pc, lf_res, api_log, main_pc, config, pu_pc, pu_in, pu_res,
          rq_pc, rq_in, rq_res, sent>>

NoResult == [ok |-> FALSE, err |-> "none"]

\* DownloadResult::default()
DefaultResult ==
  [downloaded |-> 0, skipped |-> 0, failed |-> 0, cancelled |-> FALSE, errors |-> <<>>]

\* the writer and the orchestrator at rest
SaveIdle ==
  /\ sv_pc = "idle"
  /\ sv_in = [base_dir |-> <<>>, file_path |-> <<>>, content |-> "new", output_dir |-> <<>>]
  /\ sv_res = NoResult

DownloadIdle ==
  /\ dl = [files |-> <<>>, limit |-> 1, resume |-> FALSE, base_dir |-> <<>>,
           output_dir |-> <<>>]
  /\ pc = <<>>
  /\ outcome = <<>>
  /\ fetches = <<>>
  /\ body = <<>>
  /\ permits = 1
  /\ cancelled = FALSE
  /\ sigint = "none"
  /\ orch_pc = "idle"
  /\ result = DefaultResult
  /\ dropped = {}

ListIdle ==
  /\ remote = [ref |-> NoRef, leaves |-> {}, shown |-> 0]
  /\ url0 = [owner |-> <<>>, repo |-> <<>>, git_ref |-> <<>>, dir |-> <<>>]
  /\ url = url0
  /\ dir_parts = <<>>
  /\ lf_pc = "idle"
  /\ lf_res = NoResult
  /\ api_log = <<>>
  /\ main_pc = "idle"
  /\ config = NoResult

ParseIdle ==
  /\ pu_pc = "idle"
  /\ pu_in = [scheme |-> <<>>, host |-> <<>>, segs |-> <<>>]
  /\ pu_res = NoResult

RequestIdle ==
  /\ rq_pc = "idle"
  /\ rq_in = [op |-> "none"]
  /\ rq_res = NoResult
  /\ sent = <<>>

(***************************************************************************)
(* SpecParse: one call of ParsedUrl::parse.                                *)
(***************************************************************************)
InitParse ==
  /\ pu_pc = "call"
  /\ pu_in \in Locators
  /\ pu_res = NoResult
  /\ SaveIdle
  /\ DownloadIdle
  /\ ListIdle
  /\ RequestIdle
  /\ fs0 = EmptyFs
  /\ fs = fs0

Parse ==
  /\ pu_pc = "call"
  /\ pu_res' = parse(pu_in)
  /\ pu_pc' = "done"
  /\ UNCHANGED pu_in
  /\ UNCHANGED sv_vars
  /\ UNCHANGED fs_vars
  /\ UNCHANGED dl_vars
  /\ UNCHANGED lf_vars
  /\ UNCHANGED rq_vars

\* the refs set_git_ref is called with
NewRefs == {<<"z", "z">>, <<"m">>}

\* ParsedUrl::set_git_ref: self.git_ref = Some(git_ref) (url.rs:91-93)
set_git_ref(parsed, new_ref) == [parsed EXCEPT !.git_ref = Some(new_ref)]

\* a caller sets the ref of the ParsedUrl parse returned
SetGitRef ==
  /\ pu_pc = "done"
  /\ pu_res.ok
  /\ \E new_ref \in NewRefs : pu_res' = Ok(set_git_ref(pu_res.val, new_ref))
  /\ pu_pc' = "set"
  /\ UNCHANGED pu_in
  /\ UNCHANGED sv_vars
  /\ UNCHANGED fs_vars
  /\ UNCHANGED dl_vars
  /\ UNCHANGED lf_vars
  /\ UNCHANGED rq_vars

NextParse ==
  \/ Parse
  \/ SetGitRef

SpecParse == InitParse /\ [][NextParse]_vars

(***************************************************************************)
(* SpecSave: one call of save_file on every input of the bounded sets.     *)
(***************************************************************************)
InitSave ==
  /\ sv_pc = "call"
  /\ sv_in \in [base_dir : Anchors, file_path : FilePaths, content : Contents,
                output_dir : OutputDirs]
  /\ sv_res = NoResult
  /\ fs0 \in InitialFs(sv_in.output_dir)
  /\ fs = fs0
  /\ DownloadIdle
  /\ ListIdle
  /\ ParseIdle
  /\ RequestIdle

\* a first poll that creates the parent directories before it checks the
\* path
SaveFileDirsFirst ==
  /\ sv_pc = "call"
  /\ \E made \in {IF ~extract_relative_path(sv_in.base_dir, sv_in.file_path).ok
                     \/ Parent(SaveFullPath(sv_in)) = NoParent
                  THEN Ok(fs) ELSE DirsMade(sv_in, fs)} :
       /\ fs' = IF made.ok THEN made.val ELSE fs
       /\ IF SaveRejected(sv_in)
          THEN sv_res' = Err("PathTraversal") /\ sv_pc' = "done"
          ELSE IF made.ok THEN sv_pc' = "write" /\ UNCHANGED sv_res
          ELSE sv_res' = Err("IoError") /\ sv_pc' = "done"
  /\ UNCHANGED <<sv_in, fs0>>
  /\ UNCHANGED dl_vars
  /\ UNCHANGED lf_vars
  /\ UNCHANGED pu_vars
  /\ UNCHANGED rq_vars

\* the first poll of save_file (download.rs:98-127): a rejected path returns
\* PathTraversal; otherwise create_dir_all(parent) is handed to the blocking
\* pool, or fs::write when the path has no parent, and the call is pending
SaveFile ==
  /\ sv_pc = "call"
  /\ IF SaveRejected(sv_in)
     THEN sv_res' = Err("PathTraversal") /\ sv_pc' = "done"
     ELSE IF Parent(SaveFullPath(sv_in)) = NoParent
          THEN sv_pc' = "write" /\ UNCHANGED sv_res
          ELSE sv_pc' = "mkdir" /\ UNCHANGED sv_res
  /\ UNCHANGED <<sv_in, fs0, fs>>
  /\ UNCHANGED dl_vars
  /\ UNCHANGED lf_vars
  /\ UNCHANGED pu_vars
  /\ UNCHANGED rq_vars

\* the blocking pool runs create_dir_all(parent) (download.rs:126)
CreateDirAll ==
  /\ sv_pc = "mkdir"
  /\ \E made \in {DirsMade(sv_in, fs)} :
       IF made.ok THEN fs' = made.val /\ sv_pc' = "made"
       ELSE UNCHANGED fs /\ sv_pc' = "mkdir_failed"
  /\ UNCHANGED <<sv_in, sv_res, fs0>>
  /\ UNCHANGED dl_vars
  /\ UNCHANGED lf_vars
  /\ UNCHANGED pu_vars
  /\ UNCHANGED rq_vars

\* the poll that reads the answer of create_dir_all (download.rs:127-135):
\* an error returns IoError, otherwise fs::write is handed to the pool
SaveFileResumes ==
  /\ sv_pc \in {"made", "mkdir_failed"}
  /\ IF sv_pc = "made" THEN sv_pc' = "write" /\ UNCHANGED sv_res
     ELSE sv_res' = Err("IoError") /\ sv_pc' = "done"
  /\ UNCHANGED <<sv_in, fs0, fs>>
  /\ UNCHANGED dl_vars
  /\ UNCHANGED lf_vars
  /\ UNCHANGED pu_vars
  /\ UNCHANGED rq_vars

\* the blocking pool runs fs::write(&full_path, content) (download.rs:134)
FsWrite ==
  /\ sv_pc = "write"
  /\ \E written \in {Written(sv_in, fs)} :
       IF written.ok THEN fs' = written.val /\ sv_pc' = "wrote"
       ELSE UNCHANGED fs /\ sv_pc' = "write_failed"
  /\ UNCHANGED <<sv_in, sv_res, fs0>>
  /\ UNCHANGED dl_vars
  /\ UNCHANGED lf_vars
  /\ UNCHANGED pu_vars
  /\ UNCHANGED rq_vars

\* the poll that reads the answer of fs::write and returns (download.rs:135-141)
SaveFileReturns ==
  /\ sv_pc \in {"wrote", "write_failed"}
  /\ sv_res' = IF sv_pc = "wrote" THEN Ok(SaveFullPath(sv_in)) ELSE Err("IoError")
  /\ sv_pc' = "done"
  /\ UNCHANGED <<sv_in, fs0, fs>>
  /\ UNCHANGED dl_vars
  /\ UNCHANGED lf_vars
  /\ UNCHANGED pu_vars
  /\ UNCHANGED rq_vars

NextSave ==
  \/ SaveFile
  \/ CreateDirAll
  \/ SaveFileResumes
  \/ FsWrite
  \/ SaveFileReturns

SpecSave == InitSave /\ [][NextSave]_vars

(***************************************************************************)
(* Spec: one run of download_files.  The units are futures polled by the   *)
(* select loop of download_files on one thread; the Ctrl-C handler of main *)
(* runs on a thread of its own.                                            *)
(***************************************************************************)
Units == 1..Len(dl.files)

\* where a unit is inside save_file: "mkdir" and "write" while that
\* operation is with the blocking pool, "made", "mkdir_failed", "wrote" and
\* "write_failed" once it ran and the unit has not read its answer
Saving == {"mkdir", "made", "mkdir_failed", "write", "wrote", "write_failed"}

\* a limit that grows with the number of files
LimitByFileCount == Len(dl.files) + 1

\* options.concurrency_limit, the size of the semaphore and of the buffer
ConcurrencyLimit == dl.limit

\* the units buffer_unordered is polling; the futures the stream was
\* dropped with are polled no more
InFlight ==
  {i \in Units \ dropped : pc[i] \in {"acquire", "check2", "fetch"} \cup Saving}

\* the units that hold a semaphore permit; a dropped future has given its
\* permit back
Holding == {i \in Units \ dropped : pc[i] \in {"check2", "fetch"} \cup Saving}

Init ==
  /\ SaveIdle
  /\ ListIdle
  /\ ParseIdle
  /\ RequestIdle
  /\ \E n \in 1..NumFiles, limit \in 1..MaxLimit, resume \in BOOLEAN :
       /\ \E files \in FileLists(n) :
            dl = [files |-> files, limit |-> limit, resume |-> resume,
                  base_dir |-> DlBaseDir, output_dir |-> DlOutputDir]
       /\ pc = [i \in 1..n |-> "queued"]
       /\ outcome = [i \in 1..n |-> "none"]
       /\ fetches = [i \in 1..n |-> 0]
       /\ body = [i \in 1..n |-> "none"]
       /\ permits = ConcurrencyLimit
       /\ fs0 \in OutputsBefore(n)
  /\ fs = fs0
  /\ cancelled = FALSE
  /\ sigint = "none"
  /\ orch_pc = "loop"
  /\ result = DefaultResult
  /\ dropped = {}

\* a match that leaves skipped files out of the counts
AggregateNoSkipped(res, file_path, status) ==
  IF status.kind = "Downloaded" THEN [res EXCEPT !.downloaded = @ + 1]
  ELSE IF status.kind = "Failed"
       THEN [res EXCEPT !.failed = @ + 1,
                        !.errors = Append(@, <<file_path, status.err>>)]
       ELSE res

\* a match that counts a failure without recording its error
AggregateNoErrors(res, file_path, status) ==
  IF status.kind = "Downloaded" THEN [res EXCEPT !.downloaded = @ + 1]
  ELSE IF status.kind = "Skipped" THEN [res EXCEPT !.skipped = @ + 1]
  ELSE IF status.kind = "Failed" THEN [res EXCEPT !.failed = @ + 1]
  ELSE res

\* a match that counts a cancelled unit among the failures
AggregateCountsCancelled(res, file_path, status) ==
  IF status.kind = "Downloaded" THEN [res EXCEPT !.downloaded = @ + 1]
  ELSE IF status.kind = "Skipped" THEN [res EXCEPT !.skipped = @ + 1]
  ELSE IF status.kind = "Failed"
       THEN [res EXCEPT !.failed = @ + 1,
                        !.errors = Append(@, <<file_path, status.err>>)]
       ELSE [res EXCEPT !.failed = @ + 1]

\* the match on the status a unit completed with (download.rs:248-265)
Aggregate(res, file_path, status) ==
  IF status.kind = "Downloaded" THEN [res EXCEPT !.downloaded = @ + 1]
  ELSE IF status.kind = "Skipped" THEN [res EXCEPT !.skipped = @ + 1]
  ELSE IF status.kind = "Failed"
       THEN [res EXCEPT !.failed = @ + 1,
                        !.errors = Append(@, <<file_path, status.err>>)]
       ELSE res

Status(kind) == [kind |-> kind, err |-> "none"]
Failed(e) == [kind |-> "Failed", err |-> e]

\* the stream branch of the select is polled: the loop is running and the
\* biased select did not find the ctrl_c future ready
StreamPolled == orch_pc = "loop" /\ sigint # "delivered"

\* a unit that returns without giving its permit back
CompleteKeepingPermit(i, status) ==
  /\ pc' = [pc EXCEPT ![i] = "done"]
  /\ outcome' = [outcome EXCEPT ![i] = status.kind]
  /\ permits' = permits
  /\ result' = Aggregate(result, dl.files[i], status)

\* a unit returns (file_path, status): its permit, if it holds one, is
\* dropped, the stream yields the pair and the loop records it
Complete(i, status) ==
  /\ pc' = [pc EXCEPT ![i] = "done"]
  /\ outcome' = [outcome EXCEPT ![i] = status.kind]
  /\ permits' = IF i \in Holding THEN permits + 1 ELSE permits
  /\ result' = Aggregate(result, dl.files[i], status)

\* buffer_unordered starts the next future of the list when fewer than
\* concurrency_limit are in progress; the unit makes its first check
Start(i) ==
  /\ StreamPolled
  /\ pc[i] = "queued"
  /\ \A j \in 1..(i - 1) : pc[j] # "queued"
  /\ Cardinality(InFlight) < ConcurrencyLimit
  /\ IF cancelled
     THEN Complete(i, Status("Cancelled"))
     ELSE /\ pc' = [pc EXCEPT ![i] = "acquire"]
          /\ UNCHANGED <<outcome, permits, result>>
  /\ UNCHANGED <<dl, fetches, body, cancelled, sigint, orch_pc, dropped>>
  /\ UNCHANGED sv_vars
  /\ UNCHANGED pu_vars
  /\ UNCHANGED rq_vars
  /\ UNCHANGED lf_vars
  /\ UNCHANGED fs_vars

\* semaphore.acquire()
Acquire(i) ==
  /\ StreamPolled
  /\ pc[i] = "acquire"
  /\ permits > 0
  /\ permits' = permits - 1
  /\ pc' = [pc EXCEPT ![i] = "check2"]
  /\ UNCHANGED <<dl, outcome, fetches, body, cancelled, sigint, orch_pc, result, dropped>>
  /\ UNCHANGED sv_vars
  /\ UNCHANGED pu_vars
  /\ UNCHANGED rq_vars
  /\ UNCHANGED lf_vars
  /\ UNCHANGED fs_vars

\* the resume test of a unit (download.rs:212-217)
ThereAt(relative) == relative.ok /\ Exists(fs, JoinPath(dl.output_dir, relative.val))

AlreadyThere(i) ==
  dl.resume /\ ThereAt(extract_relative_path(dl.base_dir, dl.files[i]))

\* a unit that does not look at the flag again once it has its permit
Check2Unchecked(i) ==
  /\ StreamPolled
  /\ pc[i] = "check2"
  /\ IF AlreadyThere(i)
     THEN Complete(i, Status("Skipped")) /\ UNCHANGED fetches
     ELSE /\ pc' = [pc EXCEPT ![i] = "fetch"]
          /\ fetches' = [fetches EXCEPT ![i] = @ + 1]
          /\ UNCHANGED <<outcome, permits, result>>
  /\ UNCHANGED <<dl, body, cancelled, sigint, orch_pc, dropped>>
  /\ UNCHANGED sv_vars
  /\ UNCHANGED pu_vars
  /\ UNCHANGED rq_vars
  /\ UNCHANGED lf_vars
  /\ UNCHANGED fs_vars

\* the second check, the resume test and the start of the fetch
Check2(i) ==
  /\ StreamPolled
  /\ pc[i] = "check2"
  /\ IF cancelled
     THEN Complete(i, Status("Cancelled")) /\ UNCHANGED fetches
     ELSE IF AlreadyThere(i)
          THEN Complete(i, Status("Skipped")) /\ UNCHANGED fetches
          ELSE /\ pc' = [pc EXCEPT ![i] = "fetch"]
               /\ fetches' = [fetches EXCEPT ![i] = @ + 1]
               /\ UNCHANGED <<outcome, permits, result>>
  /\ UNCHANGED <<dl, body, cancelled, sigint, orch_pc, dropped>>
  /\ UNCHANGED sv_vars
  /\ UNCHANGED pu_vars
  /\ UNCHANGED rq_vars
  /\ UNCHANGED lf_vars
  /\ UNCHANGED fs_vars

\* the arguments of a unit's call of save_file (download.rs:221)
SaveCall(i) ==
  [base_dir |-> dl.base_dir, file_path |-> dl.files[i], content |-> body[i],
   output_dir |-> dl.output_dir]

\* the poll that reads the answer of provider.download_file
\* (download.rs:219-224): an error ends the unit; with the content the unit
\* enters save_file, which returns PathTraversal for a rejected path and
\* otherwise hands create_dir_all(parent) to the blocking pool, or fs::write
\* when the path has no parent (download.rs:98-127)
FetchDone(i) ==
  /\ StreamPolled
  /\ pc[i] = "fetch"
  /\ \/ /\ body' = [body EXCEPT ![i] = "new"]
        /\ IF SaveRejected(SaveCall(i))
           THEN Complete(i, Failed("PathTraversal"))
           ELSE /\ pc' = [pc EXCEPT ![i] =
                            IF Parent(SaveFullPath(SaveCall(i))) = NoParent
                            THEN "write" ELSE "mkdir"]
                /\ UNCHANGED <<outcome, permits, result>>
     \/ /\ Complete(i, Failed("DownloadFailed"))
        /\ UNCHANGED body
  /\ UNCHANGED <<dl, fetches, cancelled, sigint, orch_pc, dropped>>
  /\ UNCHANGED sv_vars
  /\ UNCHANGED pu_vars
  /\ UNCHANGED rq_vars
  /\ UNCHANGED lf_vars
  /\ UNCHANGED fs_vars

\* the blocking pool runs the create_dir_all(parent) a unit handed to it
\* (download.rs:126), whether or not the unit is polled again
SaveDirs(i) ==
  /\ pc[i] = "mkdir"
  /\ \E made \in {DirsMade(SaveCall(i), fs)} :
       IF made.ok
       THEN fs' = made.val /\ pc' = [pc EXCEPT ![i] = "made"]
       ELSE UNCHANGED fs /\ pc' = [pc EXCEPT ![i] = "mkdir_failed"]
  /\ UNCHANGED <<dl, outcome, fetches, body, permits, cancelled, sigint, orch_pc,
                 result, dropped, fs0>>
  /\ UNCHANGED sv_vars
  /\ UNCHANGED pu_vars
  /\ UNCHANGED rq_vars
  /\ UNCHANGED lf_vars

\* the poll that reads the answer of create_dir_all (download.rs:127-135):
\* an error returns IoError, otherwise fs::write is handed to the pool
SaveResumes(i) ==
  /\ StreamPolled
  /\ pc[i] \in {"made", "mkdir_failed"}
  /\ IF pc[i] = "made"
     THEN /\ pc' = [pc EXCEPT ![i] = "write"]
          /\ UNCHANGED <<outcome, permits, result>>
     ELSE Complete(i, Failed("IoError"))
  /\ UNCHANGED <<dl, fetches, body, cancelled, sigint, orch_pc, dropped>>
  /\ UNCHANGED sv_vars
  /\ UNCHANGED pu_vars
  /\ UNCHANGED rq_vars
  /\ UNCHANGED lf_vars
  /\ UNCHANGED fs_vars

\* the blocking pool runs the fs::write a unit handed to it
\* (download.rs:134), whether or not the unit is polled again
SaveWrite(i) ==
  /\ pc[i] = "write"
  /\ \E written \in {Written(SaveCall(i), fs)} :
       IF written.ok
       THEN fs' = written.val /\ pc' = [pc EXCEPT ![i] = "wrote"]
       ELSE UNCHANGED fs /\ pc' = [pc EXCEPT ![i] = "write_failed"]
  /\ UNCHANGED <<dl, outcome, fetches, body, permits, cancelled, sigint, orch_pc,
                 result, dropped, fs0>>
  /\ UNCHANGED sv_vars
  /\ UNCHANGED pu_vars
  /\ UNCHANGED rq_vars
  /\ UNCHANGED lf_vars

\* the poll that reads the answer of the write: save_file returns and the
\* unit with it (download.rs:135-141, 221-224)
SaveDone(i) ==
  /\ StreamPolled
  /\ pc[i] \in {"wrote", "write_failed"}
  /\ IF pc[i] = "wrote" THEN Complete(i, Status("Downloaded"))
                        ELSE Complete(i, Failed("IoError"))
  /\ UNCHANGED <<dl, fetches, body, cancelled, sigint, orch_pc, dropped>>
  /\ UNCHANGED sv_vars
  /\ UNCHANGED pu_vars
  /\ UNCHANGED rq_vars
  /\ UNCHANGED lf_vars
  /\ UNCHANGED fs_vars

\* task_stream.next() gives None: every unit was yielded
StreamEnd ==
  /\ StreamPolled
  /\ \A i \in Units : pc[i] = "done"
  /\ orch_pc' = "returned"
  /\ UNCHANGED <<dl, pc, outcome, fetches, body, permits, cancelled, sigint, result, dropped>>
  /\ UNCHANGED sv_vars
  /\ UNCHANGED pu_vars
  /\ UNCHANGED rq_vars
  /\ UNCHANGED lf_vars
  /\ UNCHANGED fs_vars

\* the operator interrupts the process
Sigint ==
  /\ orch_pc = "loop"
  /\ sigint = "none"
  /\ sigint' = "raised"
  /\ UNCHANGED <<dl, pc, outcome, fetches, body, permits, cancelled, orch_pc, result, dropped>>
  /\ UNCHANGED sv_vars
  /\ UNCHANGED pu_vars
  /\ UNCHANGED rq_vars
  /\ UNCHANGED lf_vars
  /\ UNCHANGED fs_vars

\* the handler main installs stores the flag, on its own thread
\* (main.rs:69-71), whether download_files is still running or has returned
CtrlcHandler ==
  /\ sigint # "none"
  /\ ~cancelled
  /\ cancelled' = TRUE
  /\ UNCHANGED <<dl, pc, outcome, fetches, body, permits, sigint, orch_pc, result, dropped>>
  /\ UNCHANGED sv_vars
  /\ UNCHANGED pu_vars
  /\ UNCHANGED rq_vars
  /\ UNCHANGED lf_vars
  /\ UNCHANGED fs_vars

\* the runtime's signal driver makes the ctrl_c future ready
DriverTurn ==
  /\ orch_pc = "loop"
  /\ sigint = "raised"
  /\ sigint' = "delivered"
  /\ UNCHANGED <<dl, pc, outcome, fetches, body, permits, cancelled, orch_pc, result, dropped>>
  /\ UNCHANGED sv_vars
  /\ UNCHANGED pu_vars
  /\ UNCHANGED rq_vars
  /\ UNCHANGED lf_vars
  /\ UNCHANGED fs_vars

\* the ctrl_c branch of the select: store the flag, mark the result, break;
\* download_files returns and the stream with its unfinished futures (and
\* their permits) is dropped
SelectCtrlC ==
  /\ orch_pc = "loop"
  /\ sigint = "delivered"
  /\ cancelled' = TRUE
  /\ result' = [result EXCEPT !.cancelled = TRUE]
  /\ orch_pc' = "returned"
  /\ dropped' = {i \in Units : pc[i] # "done"}
  /\ permits' = ConcurrencyLimit
  /\ UNCHANGED <<dl, pc, outcome, fetches, body, sigint>>
  /\ UNCHANGED sv_vars
  /\ UNCHANGED pu_vars
  /\ UNCHANGED rq_vars
  /\ UNCHANGED lf_vars
  /\ UNCHANGED fs_vars

Next ==
  \/ \E i \in Units : Start(i)
  \/ \E i \in Units : Acquire(i)
  \/ \E i \in Units : Check2(i)
  \/ \E i \in Units : FetchDone(i)
  \/ \E i \in Units : SaveDirs(i)
  \/ \E i \in Units : SaveResumes(i)
  \/ \E i \in Units : SaveWrite(i)
  \/ \E i \in Units : SaveDone(i)
  \/ StreamEnd
  \/ Sigint
  \/ CtrlcHandler
  \/ DriverTurn
  \/ SelectCtrlC

Spec == Init /\ [][Next]_vars

\* the stream polls a unit that can start or take a permit
Polled == \E i \in Units : Start(i) \/ Acquire(i)

\* a unit at its second check (download.rs:208-217), waiting for its fetch
\* (download.rs:219) or in save_file (download.rs:221-224) moves on: the
\* check waits for nothing, the fetch answers, create_dir_all and fs::write
\* run and the unit is polled with their answers
Returns(i) ==
  /\ StreamPolled
  /\ pc[i] \in {"check2", "fetch"} \cup Saving
  /\ \E q \in {"fetch", "done"} \cup Saving :
       q # pc[i] /\ pc' = [pc EXCEPT ![i] = q]

\* download_files on a runtime that keeps polling the stream while a unit
\* can advance, every fetch and every write returning in the end
SpecFair ==
  /\ Init
  /\ [][Next]_vars
  /\ WF_vars(Polled)
  /\ WF_pc(\E i \in Units : Returns(i))
  /\ WF_vars(StreamEnd)

(***************************************************************************)
(* download_files on two files the listing gave for one dir: every listed  *)
(* path starts with the dir and a separator (github.rs:122-147), its names *)
(* are those of a git tree (never empty, "." or ".."), and main takes the  *)
(* last segment of the dir as base_dir (main.rs:58-61).                    *)
(***************************************************************************)
MaxAnchorSegs == 2

\* names of directories: the anchor's text alone and as the end of a name
AnchorNames == {<<"s">>, <<"x", "s">>}

ListedDirs == {JoinSlash(q) : q \in SeqsUpTo(AnchorNames, MaxAnchorSegs)} \ {<<>>}

\* what follows the dir and its separator in a listed path
ListedRests ==
  << <<"e">>, <<"s">>, <<"s", "/", "e">>, <<"e", "/", "s">>,
     <<"s", "/", "s">>, <<"x", "s", "/", "e">> >>

InitListed ==
  /\ SaveIdle
  /\ ListIdle
  /\ ParseIdle
  /\ RequestIdle
  /\ \E dir \in ListedDirs, r1 \in DOMAIN ListedRests, r2 \in DOMAIN ListedRests :
       /\ r1 < r2
       /\ dl = [files |-> <<DirPrefix(dir) \o ListedRests[r1],
                            DirPrefix(dir) \o ListedRests[r2]>>,
                limit |-> MaxLimit, resume |-> FALSE,
                base_dir |-> BaseDirOf(dir), output_dir |-> DlOutputDir]
  /\ pc = [i \in 1..2 |-> "queued"]
  /\ outcome = [i \in 1..2 |-> "none"]
  /\ fetches = [i \in 1..2 |-> 0]
  /\ body = [i \in 1..2 |-> "none"]
  /\ permits = ConcurrencyLimit
  /\ fs0 = EmptyFs
  /\ fs = fs0
  /\ cancelled = FALSE
  /\ sigint = "none"
  /\ orch_pc = "loop"
  /\ result = DefaultResult
  /\ dropped = {}

SpecListed == InitListed /\ [][Next]_vars

(***************************************************************************)
(* SpecList: main parses a locator, calls list_files and acts on what it   *)
(* returns.  An action runs list_files from one request to the next.       *)
(***************************************************************************)
InitList ==
  /\ SaveIdle
  /\ DownloadIdle
  /\ ParseIdle
  /\ RequestIdle
  /\ fs0 = EmptyFs
  /\ fs = fs0
  /\ \E dir \in ListDirs :
       /\ url0 = [owner |-> <<"o">>, repo |-> <<"p">>, git_ref |-> StartRef, dir |-> dir]
       /\ \E ref \in TrueRefs(dir), leaves \in SUBSET Leaves :
            \E shown \in 0..Len(FullTree(leaves)) :
               remote = [ref |-> ref, leaves |-> leaves, shown |-> shown]
  /\ url = url0
  /\ dir_parts = <<>>
  /\ lf_pc = "call"
  /\ lf_res = NoResult
  /\ api_log = <<>>
  /\ main_pc = "list"
  /\ config = NoResult

Logged(api, u, res) == [api |-> api, git_ref |-> u.git_ref, dir |-> u.dir, result |-> res]

\* list_files returns
Return(res) ==
  /\ lf_res' = res
  /\ lf_pc' = "done"

\* the while loop is entered with these parts (github.rs:90-93): it sends
\* the next probe or, with no part left, falls through to the end of
\* list_files with no file and no truncation (github.rs:109-113)
LoopWith(parts, u) ==
  IF parts # <<>>
  THEN /\ url' = [u EXCEPT !.dir = JoinSlash(parts)]
       /\ dir_parts' = parts
       /\ lf_pc' = "trees"
       /\ UNCHANGED lf_res
  ELSE /\ url' = u
       /\ dir_parts' = parts
       /\ Return(Ok(<<>>))

\* list_files up to its first request (github.rs:69-93)
ListCall ==
  /\ lf_pc = "call"
  /\ LoopWith(NonEmpty(SplitSlash(PercentDecode(url.dir))), url)
  /\ UNCHANGED <<remote, url0, api_log, main_pc, config>>
  /\ UNCHANGED sv_vars
  /\ UNCHANGED pu_vars
  /\ UNCHANGED rq_vars
  /\ UNCHANGED fs_vars
  /\ UNCHANGED dl_vars

\* a fallback whenever the tree was cut
FallbackWhenTruncated(files, truncated) == truncated

\* if files.is_empty() && truncated (github.rs:109)
NeedsFallback(files, truncated) == files = <<>> /\ truncated

\* list_files after the fast listing succeeded (github.rs:94-113)
AfterTrees(listing) ==
  IF NeedsFallback(listing.files, listing.truncated)
  THEN /\ lf_pc' = "contents"
       /\ UNCHANGED lf_res
  ELSE Return(Ok(listing.files))

\* a ref extended without the separator
ShiftRefNoSlash(git_ref, parts) == git_ref \o Head(parts)

\* format!("{}/{}", parsed_url.git_ref, dir_parts[0]) (github.rs:101)
ShiftRef(git_ref, parts) == git_ref \o <<Slash>> \o Head(parts)

\* a loop that every error drives
AnyErrorDrives(err) == TRUE

\* the arm Err(RepoPackError::NotFound { .. }) (github.rs:99)
DrivesDisambiguation(err) == err = "NotFound"

\* the match on what via_trees_api returned (github.rs:93-105)
OnTrees(res) ==
  /\ api_log' = Append(api_log, Logged("trees", url, res))
  /\ IF res.ok
     THEN AfterTrees(res.val) /\ UNCHANGED <<url, dir_parts>>
     ELSE IF DrivesDisambiguation(res.err)
          THEN LoopWith(Tail(dir_parts),
                        [url EXCEPT !.git_ref = ShiftRef(@, dir_parts)])
          ELSE Return(res) /\ UNCHANGED <<url, dir_parts>>

\* the response to a fast-listing probe arrives
TreesReturns ==
  /\ lf_pc = "trees"
  /\ \E fault \in {"none"} \cup ApiFaults :
       OnTrees(via_trees_api(url, TreesResponse(remote, url.git_ref, fault)))
  /\ UNCHANGED <<remote, url0, main_pc, config>>
  /\ UNCHANGED sv_vars
  /\ UNCHANGED pu_vars
  /\ UNCHANGED rq_vars
  /\ UNCHANGED fs_vars
  /\ UNCHANGED dl_vars

\* files = self.via_contents_api(parsed_url, token).await?; Ok(files)
OnContents(res) ==
  /\ api_log' = Append(api_log, Logged("contents", url, res))
  /\ Return(res)

\* the exhaustive listing returns
ContentsReturns ==
  /\ lf_pc = "contents"
  /\ \E fault \in {"none"} \cup ApiFaults :
       OnContents(IF fault = "none" THEN via_contents_api(remote, url.git_ref, url.dir)
                  ELSE Err(ApiError(fault)))
  /\ UNCHANGED <<remote, url0, url, dir_parts, main_pc, config>>
  /\ UNCHANGED sv_vars
  /\ UNCHANGED pu_vars
  /\ UNCHANGED rq_vars
  /\ UNCHANGED fs_vars
  /\ UNCHANGED dl_vars

\* main after list_files returned (main.rs:36-91): the error ends main, an
\* empty listing and a dry run end it too, otherwise download_files is
\* called with the listed files (here with --limit MaxLimit, no --resume)
StartDownload(files) ==
  /\ dl' = [files |-> files, limit |-> MaxLimit, resume |-> FALSE,
            base_dir |-> BaseDirOf(url.dir), output_dir |-> DlOutputDir]
  /\ pc' = [i \in 1..Len(files) |-> "queued"]
  /\ outcome' = [i \in 1..Len(files) |-> "none"]
  /\ fetches' = [i \in 1..Len(files) |-> 0]
  /\ body' = [i \in 1..Len(files) |-> "none"]
  /\ permits' = MaxLimit
  /\ orch_pc' = "loop"
  /\ UNCHANGED <<cancelled, sigint, result, dropped>>

MainAfterList(res, dry_run) ==
  IF ~res.ok THEN main_pc' = "failed" /\ UNCHANGED dl_vars
  ELSE IF res.val = <<>> THEN main_pc' = "no_files" /\ UNCHANGED dl_vars
  ELSE IF dry_run THEN main_pc' = "dry_run" /\ UNCHANGED dl_vars
  ELSE main_pc' = "download" /\ StartDownload(res.val)

MainContinues ==
  /\ main_pc = "list"
  /\ lf_pc = "done"
  /\ \E dry_run \in BOOLEAN : MainAfterList(lf_res, dry_run)
  /\ UNCHANGED <<remote, url0, url, dir_parts, lf_pc, lf_res, api_log, config>>
  /\ UNCHANGED sv_vars
  /\ UNCHANGED pu_vars
  /\ UNCHANGED rq_vars
  /\ UNCHANGED fs_vars

NextList ==
  \/ ListCall
  \/ TreesReturns
  \/ ContentsReturns
  \/ MainContinues

SpecList == InitList /\ [][NextList]_vars

(***************************************************************************)
(* SpecMain: main from the locator on the command line: ParsedUrl::parse,  *)
(* then list_files on what it returned (main.rs:33-38).                    *)
(***************************************************************************)
MainRef == <<"m", "a", "i", "n">>

\* ParsedUrl::git_ref: the ref, falling back to "main" if not set
git_ref(parsed) == IF parsed.git_ref.some THEN parsed.git_ref.val ELSE MainRef

\* the branches the repository may have as its default branch
DefaultBranches == {MainRef, <<"m">>}

\* directories written with a doubled, a leading and a trailing separator,
\* and with escaped separators
UntidyDirs ==
  { << <<>>, <<"d">>, <<>>, <<"s">>, <<>> >>,
    << <<"d">>, <<>> >>,
    << <<"d", "%", "2", "F">> >>,
    << <<"%", "2", "F", "d", "%", "2", "F", "%", "2", "F", "s">> >> }

\* the locators of a run: owner and repository, with or without a marker
\* and a ref, then the segments of a directory
MainLocators ==
  {[scheme |-> <<"h", "t", "t", "p", "s">>, host |-> <<"g">>,
    segs |-> << <<"o">>, <<"p">> >> \o marker \o q] :
     marker \in {<<>>, <<TreeMarker, StartRef>>, <<BlobMarker, StartRef>>},
     q \in SeqsUpTo(DirSegments, MaxDirSegs) \cup UntidyDirs}

\* the refs the locator may stand for in the repository: with a ref in the
\* locator as in TrueRefs, without one the default branch
LocatorRefs(parsed, default_branch) ==
  IF parsed.ok /\ ~needs_default_branch(parsed.val) THEN TrueRefs(parsed.val.dir)
  ELSE {default_branch}

(***************************************************************************)
(* Config::load, the first thing main does (main.rs:17): the configuration *)
(* file is config_dir()/repo-pack/config.json (config.rs:61-70).           *)
(***************************************************************************)
ConfigDir == <<RootDir, <<"c">>>>
ConfigParent == Append(ConfigDir, <<"r", "e", "p", "o", "-", "p", "a", "c", "k">>)
ConfigPath == Append(ConfigParent, <<"c", "o", "n", "f", "i", "g", ".", "j", "s", "o", "n">>)

\* the file systems main may start on: no configuration yet, a stored one,
\* one that is no JSON, a directory where the file should be, and a file
\* where its directory should be
ConfigFss ==
  {EmptyFs,
   [files |-> {[loc |-> ConfigPath, content |-> "stored"]}, dirs |-> {ConfigDir, ConfigParent}],
   [files |-> {[loc |-> ConfigPath, content |-> "garbled"]}, dirs |-> {ConfigDir, ConfigParent}],
   [files |-> {}, dirs |-> {ConfigDir, ConfigParent, ConfigPath}],
   [files |-> {[loc |-> ConfigParent, content |-> "old"]}, dirs |-> {ConfigDir}]}

\* Config::save from the write on (config.rs:53-58)
ConfigWritten(written, made_fs) ==
  IF written.ok THEN [res |-> Ok("default"), fs |-> written.val]
  ELSE [res |-> Err("ConfigSave"), fs |-> made_fs]

\* Config::save once create_dir_all(parent) returned (config.rs:49-58)
ConfigMade(made, f) ==
  IF ~made.ok THEN [res |-> Err("ConfigSave"), fs |-> f]
  ELSE ConfigWritten(WriteAt(made.val, ConfigPath, FALSE, "default"), made.val)

\* Config::default().save() (config.rs:33-35, 46-59): the default
\* configuration and the file system it is written to
ConfigSave(f) == ConfigMade(MakeDirs(f, ConfigParent), f)

\* the stored configuration is read and decoded (config.rs:38-42)
ConfigRead(f) ==
  IF ~IsFile(f, ConfigPath) THEN Err("ConfigLoad")
  ELSE IF [loc |-> ConfigPath, content |-> "stored"] \in f.files THEN Ok("stored")
  ELSE Err("ConfigParse")

\* Config::load: the configuration or the error, and the file system left
ConfigLoaded(f) ==
  IF ~(IsFile(f, ConfigPath) \/ IsDir(f, ConfigPath)) THEN ConfigSave(f)
  ELSE [res |-> ConfigRead(f), fs |-> f]

InitMain ==
  /\ SaveIdle
  /\ DownloadIdle
  /\ RequestIdle
  /\ fs0 \in ConfigFss
  /\ fs = fs0
  /\ config = NoResult
  /\ pu_pc = "call"
  /\ pu_in \in MainLocators
  /\ pu_res = NoResult
  /\ \E default_branch \in DefaultBranches, leaves \in SUBSET Leaves :
       \E ref \in LocatorRefs(parse(pu_in), default_branch),
          shown \in 0..Len(FullTree(leaves)) :
            remote = [ref |-> ref, leaves |-> leaves, shown |-> shown,
                      default_branch |-> default_branch]
  /\ url0 = [owner |-> <<>>, repo |-> <<>>, git_ref |-> <<>>, dir |-> <<>>]
  /\ url = url0
  /\ dir_parts = <<>>
  /\ lf_pc = "idle"
  /\ lf_res = NoResult
  /\ api_log = <<>>
  /\ main_pc = "config"

\* the ref of the ParsedUrl main hands to list_files: parse's, None included
GivenRef(parsed) == IF parsed.git_ref.some THEN parsed.git_ref.val ELSE None

\* the text list_files may read a ref as: list_files formats
\* parsed_url.git_ref as a string (github.rs:101, 133, 160) while parse
\* returns an Option (url.rs:13); for None the source fixes no text, and
\* the fallback of ParsedUrl::git_ref and the empty text both stand for it
RefTexts(parsed) ==
  IF parsed.git_ref.some THEN {parsed.git_ref.val} ELSE {git_ref(parsed), <<>>}

\* main with the result of parse and of GitHubProvider::new, built telling
\* whether the HTTP client could be built (main.rs:33-38): an error of
\* either ends main, otherwise list_files is called on the ParsedUrl as
\* parse returned it (url0); url is the locator as list_files reads it
MainWith(parsed, built) ==
  /\ pu_res' = parsed
  /\ IF parsed.ok /\ built
     THEN /\ url0' = [owner |-> parsed.val.owner, repo |-> parsed.val.repo,
                      git_ref |-> GivenRef(parsed.val), dir |-> parsed.val.dir]
          /\ \E text \in RefTexts(parsed.val) : url' = [url0' EXCEPT !.git_ref = text]
          /\ lf_pc' = "call"
          /\ main_pc' = "list"
     ELSE /\ main_pc' = "failed"
          /\ UNCHANGED <<url0, url, lf_pc>>

\* let mut parsed_url = ParsedUrl::parse(&cli.url)?;
\* let provider = GitHubProvider::new()?
MainParse ==
  /\ main_pc = "parse"
  /\ pu_pc = "call"
  /\ pu_pc' = "done"
  /\ \E built \in BOOLEAN : MainWith(parse(pu_in), built)
  /\ UNCHANGED <<pu_in, remote, dir_parts, lf_res, api_log, config>>
  /\ UNCHANGED sv_vars
  /\ UNCHANGED fs_vars
  /\ UNCHANGED dl_vars
  /\ UNCHANGED rq_vars

\* let config = Config::load()? (main.rs:17): an error ends main
ConfigLoad ==
  /\ main_pc = "config"
  /\ \E r \in {ConfigLoaded(fs)} :
       /\ config' = r.res
       /\ fs' = r.fs
       /\ main_pc' = IF r.res.ok THEN "parse" ELSE "failed"
  /\ UNCHANGED <<remote, url0, url, dir_parts, lf_pc, lf_res, api_log, fs0>>
  /\ UNCHANGED sv_vars
  /\ UNCHANGED pu_vars
  /\ UNCHANGED dl_vars
  /\ UNCHANGED rq_vars

NextMain ==
  \/ ConfigLoad
  \/ MainParse
  \/ ListCall
  \/ TreesReturns
  \/ ContentsReturns
  \/ MainContinues

SpecMain == InitMain /\ [][NextMain]_vars

(***************************************************************************)
(* SpecProvider: one call of GitHubProvider::api_request or of             *)
(* GitHubProvider::download_file, against a server whose answers are       *)
(* drawn with the call.                                                    *)
(***************************************************************************)
Unknown == <<"u", "n", "k", "n", "o", "w", "n">>

\* .and_then(|v| v.to_str().ok()).unwrap_or("unknown")
OrUnknown(header) == IF header.some THEN header.val ELSE Unknown

\* parts.first() and parts.get(1), .unwrap_or(&"unknown")
PartOrUnknown(parts, k) == IF k <= Len(parts) THEN parts[k] ELSE Unknown

\* an error with the data it carries
ErrWith(e, detail) == [ok |-> FALSE, err |-> e, detail |-> detail]

\* an error for every status that is not a success
NotSuccessStatus(status) == status < 200 \/ status >= 300

\* Response::error_for_status_ref: an error for a client or server error
IsErrorStatus(status) == status >= 400 /\ status < 600

\* api_request on status FORBIDDEN (github.rs:207-220)
OnForbidden(endpoint, resp) ==
  IF resp.remaining.some /\ resp.remaining.val = <<"0">>
  THEN ErrWith("RateLimited", OrUnknown(resp.reset))
  ELSE ErrWith("AuthRequired", <<>>)

\* api_request from the response's status on (github.rs:204-255)
OnStatus(endpoint, resp) ==
  IF resp.status = 403 THEN OnForbidden(endpoint, resp)
  ELSE IF resp.status = 429 THEN ErrWith("RateLimited", OrUnknown(resp.retry_after))
  ELSE IF resp.status = 404
       THEN ErrWith("NotFound", [owner |-> PartOrUnknown(SplitSlash(endpoint), 1),
                                 repo |-> PartOrUnknown(SplitSlash(endpoint), 2)])
  ELSE IF IsErrorStatus(resp.status) THEN ErrWith("DownloadFailed", endpoint)
  ELSE IF ~resp.decodes THEN ErrWith("DownloadFailed", endpoint)
  ELSE Ok("json")

\* GitHubProvider::api_request: its result
api_request(endpoint, token, resp) ==
  IF ~resp.send_ok THEN ErrWith("DownloadFailed", endpoint)
  ELSE OnStatus(endpoint, resp)

\* the Authorization header of api_request (github.rs:192-194)
Bearer(token) ==
  IF token.some THEN Some(<<"B", "e", "a", "r", "e", "r", " ">> \o token.val) ELSE None

\* the request api_request sends (github.rs:188-196)
ApiRequestSent(endpoint, token) ==
  [host |-> "api.github.com", path |-> <<"r", "e", "p", "o", "s", "/">> \o endpoint,
   authorization |-> Bearer(token)]

\* urlencoding::encode on the characters of a path: the separator and the
\* percent sign are escaped, letters and digits are kept
RECURSIVE UrlEncode(_)
UrlEncode(path) ==
  IF path = <<>> THEN <<>>
  ELSE IF Head(path) = Slash THEN <<"%", "2", "F">> \o UrlEncode(Tail(path))
  ELSE IF Head(path) = "%" THEN <<"%", "2", "5">> \o UrlEncode(Tail(path))
  ELSE <<Head(path)>> \o UrlEncode(Tail(path))

\* the raw-content and the media request of download_file (github.rs:268-278,
\* 310-320): neither is given a header
ContentRequest(host, prefix, path, u) ==
  [host |-> host,
   path |-> prefix \o JoinSlash(<<u.owner, u.repo, u.git_ref, UrlEncode(path)>>),
   authorization |-> None]

RawRequest(path, u) == ContentRequest("raw.githubusercontent.com", <<>>, path, u)

MediaRequest(path, u) ==
  ContentRequest("media.githubusercontent.com", <<"m", "e", "d", "i", "a", "/">>, path, u)

LfsMinLen == 128
LfsMaxLen == 140
LfsPrefixLen == 42

\* a window that is open at its upper end
MightBeLfsBelowMax(content_length) ==
  content_length.some /\ content_length.val >= LfsMinLen /\ content_length.val < LfsMaxLen

\* might_be_lfs_pointer: content_length.is_some_and(|len| (128..=140).contains(&len))
might_be_lfs_pointer(content_length) ==
  content_length.some /\ content_length.val >= LfsMinLen /\ content_length.val <= LfsMaxLen

\* is_lfs_pointer: body.len() >= LFS_VERSION_PREFIX.len() &&
\* body.starts_with(LFS_VERSION_PREFIX); a body is its length and whether
\* its first bytes are those of the prefix
is_lfs_pointer(content) == content.len >= LfsPrefixLen /\ content.head = "signature"

\* download_file from the media request on (github.rs:310-329)
DownloadMedia(path, u, second) ==
  [sent |-> <<RawRequest(path, u), MediaRequest(path, u)>>,
   res |-> IF ~second.send_ok \/ IsErrorStatus(second.status) \/ ~second.body.some
           THEN ErrWith("DownloadFailed", path)
           ELSE Ok(second.body.val)]

\* download_file once the first response is there and no error (github.rs:285-329)
DownloadChecked(path, u, first, second) ==
  IF ~might_be_lfs_pointer(first.content_length)
  THEN [sent |-> <<RawRequest(path, u)>>,
        res |-> IF first.body.some THEN Ok(first.body.val)
                ELSE ErrWith("DownloadFailed", path)]
  ELSE IF ~first.body.some
       THEN [sent |-> <<RawRequest(path, u)>>, res |-> ErrWith("DownloadFailed", path)]
  ELSE IF ~is_lfs_pointer(first.body.val)
       THEN [sent |-> <<RawRequest(path, u)>>, res |-> Ok(first.body.val)]
  ELSE DownloadMedia(path, u, second)

\* GitHubProvider::download_file: the requests it sends and its result
download_file(path, u, first, second) ==
  IF ~first.send_ok \/ IsErrorStatus(first.status)
  THEN [sent |-> <<RawRequest(path, u)>>, res |-> ErrWith("DownloadFailed", path)]
  ELSE DownloadChecked(path, u, first, second)

(***************************************************************************)
(* Inputs of the provider's calls.                                         *)
(***************************************************************************)
Tokens == {None, Some(<<"k">>)}

ProviderUrl == [owner |-> <<"o">>, repo |-> <<"p">>, git_ref |-> StartRef, dir |-> <<"d">>]

\* the endpoints of via_trees_api and via_contents_api (github.rs:131-134,
\* 158-161)
Endpoints ==
  {JoinSlash(<<ProviderUrl.owner, ProviderUrl.repo, <<"g", "i", "t">>,
               <<"t", "r", "e", "e", "s">>, ProviderUrl.git_ref>>),
   JoinSlash(<<ProviderUrl.owner, ProviderUrl.repo,
               <<"c", "o", "n", "t", "e", "n", "t", "s">>, ProviderUrl.dir>>)}

Statuses == {200, 204, 304, 400, 403, 404, 429, 500}

\* what the server may answer to an API request: the request may fail to
\* be sent; the status, the rate-limit headers, and whether the body
\* decodes as the JSON asked for, whatever the status
ApiResponses ==
  [send_ok : BOOLEAN, status : Statuses,
   remaining : {None, Some(<<"0">>), Some(<<"5">>)},
   reset : {None, Some(<<"9">>)},
   retry_after : {None, Some(<<"7">>)},
   decodes : BOOLEAN]

\* no Content-Length header, or one that is no number
NoLength == [some |-> FALSE, val |-> 0]

\* a body that cannot be read to its end
NoBody == [some |-> FALSE, val |-> [len |-> 0, head |-> "other", from |-> "none"]]

ContentLengths ==
  {NoLength} \cup {Some(n) : n \in {LfsMinLen - 1, LfsMinLen, LfsMinLen + 1,
                                LfsMaxLen, LfsMaxLen + 1}}

\* the bodies of the raw-content host: shorter than the signature, of its
\* length, and of a pointer's length, each with or without the signature's
\* bytes at its start
RawBodies ==
  {NoBody} \cup {Some([len |-> n, head |-> h, from |-> "raw"]) :
                 n \in {LfsPrefixLen - 1, LfsPrefixLen, LfsMinLen + 1},
                 h \in {"signature", "other"}}

FirstResponses ==
  [send_ok : BOOLEAN, status : {200, 404, 500},
   content_length : ContentLengths, body : RawBodies]

SecondResponses ==
  [send_ok : BOOLEAN, status : {200, 404},
   body : {NoBody, Some([len |-> LfsMaxLen + 1, head |-> "other", from |-> "media"])}]

InitProvider ==
  /\ SaveIdle
  /\ DownloadIdle
  /\ ListIdle
  /\ ParseIdle
  /\ fs0 = EmptyFs
  /\ fs = fs0
  /\ rq_pc = "call"
  /\ \E token \in Tokens :
       \/ \E endpoint \in Endpoints, response \in ApiResponses :
            rq_in = [op |-> "api_request", token |-> token, endpoint |-> endpoint,
                     response |-> response]
       \/ \E first \in FirstResponses, second \in SecondResponses :
            rq_in = [op |-> "download_file", token |-> token,
                     path |-> <<"d", "/", "a">>, first |-> first, second |-> second]
  /\ rq_res = NoResult
  /\ sent = <<>>

\* a listing request: api_request with the credential of the run sends its
\* request and waits for the answer (github.rs:183-198)
ApiRequest ==
  /\ rq_pc = "call"
  /\ rq_in.op = "api_request"
  /\ sent' = <<ApiRequestSent(rq_in.endpoint, rq_in.token)>>
  /\ rq_pc' = "api"
  /\ UNCHANGED rq_res
  /\ UNCHANGED rq_in
  /\ UNCHANGED sv_vars
  /\ UNCHANGED fs_vars
  /\ UNCHANGED dl_vars
  /\ UNCHANGED lf_vars
  /\ UNCHANGED pu_vars

\* api_request reads the answer and returns
ApiRequestReturns ==
  /\ rq_pc = "api"
  /\ rq_res' = api_request(rq_in.endpoint, rq_in.token, rq_in.response)
  /\ rq_pc' = "done"
  /\ UNCHANGED sent
  /\ UNCHANGED rq_in
  /\ UNCHANGED sv_vars
  /\ UNCHANGED fs_vars
  /\ UNCHANGED dl_vars
  /\ UNCHANGED lf_vars
  /\ UNCHANGED pu_vars

\* provider.download_file(&file_path, parsed_url) (download.rs:219): the
\* credential of the run is no argument of it; the raw request is sent and
\* the call waits for the answer (github.rs:268-278)
DownloadFile ==
  /\ rq_pc = "call"
  /\ rq_in.op = "download_file"
  /\ sent' = <<RawRequest(rq_in.path, ProviderUrl)>>
  /\ rq_pc' = "raw"
  /\ UNCHANGED rq_res
  /\ UNCHANGED rq_in
  /\ UNCHANGED sv_vars
  /\ UNCHANGED fs_vars
  /\ UNCHANGED dl_vars
  /\ UNCHANGED lf_vars
  /\ UNCHANGED pu_vars

\* download_file reads the answer of the raw host (github.rs:279-320): it
\* returns, or it sends the media request and waits again
DownloadFileChecks ==
  /\ rq_pc = "raw"
  /\ \E r \in {download_file(rq_in.path, ProviderUrl, rq_in.first, rq_in.second)} :
       IF Len(r.sent) > Len(sent)
       THEN sent' = r.sent /\ rq_pc' = "media" /\ UNCHANGED rq_res
       ELSE rq_res' = r.res /\ rq_pc' = "done" /\ UNCHANGED sent
  /\ UNCHANGED rq_in
  /\ UNCHANGED sv_vars
  /\ UNCHANGED fs_vars
  /\ UNCHANGED dl_vars
  /\ UNCHANGED lf_vars
  /\ UNCHANGED pu_vars

\* download_file reads the answer of the media host and returns
\* (github.rs:320-329)
DownloadFileReturns ==
  /\ rq_pc = "media"
  /\ rq_res' = download_file(rq_in.path, ProviderUrl, rq_in.first, rq_in.second).res
  /\ rq_pc' = "done"
  /\ UNCHANGED sent
  /\ UNCHANGED rq_in
  /\ UNCHANGED sv_vars
  /\ UNCHANGED fs_vars
  /\ UNCHANGED dl_vars
  /\ UNCHANGED lf_vars
  /\ UNCHANGED pu_vars

NextProvider ==
  \/ ApiRequest
  \/ ApiRequestReturns
  \/ DownloadFile
  \/ DownloadFileChecks
  \/ DownloadFileReturns

SpecProvider == InitProvider /\ [][NextProvider]_vars

(***************************************************************************)
(* Claims about the path-safe writer.                                      *)
(***************************************************************************)
\* the lexical resolution of a path: "." dropped, ".." cancels the name
\* before it, stays at the root, and climbs above a relative start
RECURSIVE LexResolve(_, _)
LexResolve(acc, rest) ==
  IF rest = <<>> THEN acc
  ELSE LET c == Head(rest)
       IN IF c = CurDir THEN LexResolve(acc, Tail(rest))
          ELSE IF c # ParentDir THEN LexResolve(Append(acc, c), Tail(rest))
          ELSE IF acc = <<RootDir>> THEN LexResolve(acc, Tail(rest))
          ELSE IF acc # <<>> /\ acc[Len(acc)] # ParentDir
               THEN LexResolve(SubSeq(acc, 1, Len(acc) - 1), Tail(rest))
               ELSE LexResolve(Append(acc, c), Tail(rest))

Resolved(s) == LexResolve(<<>>, Components(s))

\* location loc lies inside the directory at location root
Inside(loc, root) ==
  /\ IsPrefix(root, loc)
  /\ Len(loc) > Len(root) => loc[Len(root) + 1] # ParentDir

\* the files the call created or replaced
WrittenLocs == {f.loc : f \in fs.files \ fs0.files}

\* C1: a suffix that, joined onto output_root and lexically normalized, is
\* not inside output_root makes save_file return PathTraversal, and
\* save_file never writes a file outside output_root.
C1_TraversalRejected ==
  sv_pc = "done" =>
    LET suffix == extract_relative_path(sv_in.base_dir, sv_in.file_path)
        root == Resolved(sv_in.output_dir)
    IN /\ (suffix.ok /\ ~Inside(Resolved(JoinPath(sv_in.output_dir, suffix.val)), root))
            => sv_res = Err("PathTraversal")
       /\ \A loc \in WrittenLocs : Inside(loc, root)

(***************************************************************************)
(* Claims about the download orchestrator.                                 *)
(***************************************************************************)
WithOutcome(kind) == {i \in Units : outcome[i] = kind}

Counted == result.downloaded + result.skipped + result.failed

\* C2: the number of units that hold a concurrency slot at the same time
\* never exceeds concurrency_limit.
C2_SlotsBounded == Cardinality(Holding) <= dl.limit

\* C2 witness: more files than slots, every slot held by a unit that is
\* fetching or writing, and another file still waiting
C2_Witness ==
  /\ orch_pc = "loop"
  /\ dl.limit >= 2
  /\ Cardinality(Holding) = dl.limit
  /\ \E i \in Units : pc[i] = "fetch"
  /\ \E i \in Units : pc[i] = "write"
  /\ \E i \in Units : pc[i] = "queued"

\* C3: exactly one outcome is recorded per submitted file: the counts never
\* exceed the number of files, each counter equals the number of units that
\* completed with that status, and a run that ends with the flag never set
\* has counted every file.
C3_OneOutcomePerFile ==
  /\ Counted <= Len(dl.files)
  /\ result.downloaded = Cardinality(WithOutcome("Downloaded"))
  /\ result.skipped = Cardinality(WithOutcome("Skipped"))
  /\ result.failed = Cardinality(WithOutcome("Failed"))
  /\ (orch_pc = "returned" /\ ~cancelled) => Counted = Len(dl.files)

\* C3 witness: an uncancelled run of three or more files returned with a
\* download, a skip and a failure
C3_Witness ==
  /\ orch_pc = "returned"
  /\ ~cancelled
  /\ Len(dl.files) >= 3
  /\ result.downloaded >= 1
  /\ result.skipped >= 1
  /\ result.failed >= 1

\* C4: when the cancellation flag was set while download_files was running,
\* the DownloadResult it returns has cancelled = true.
C4_FlagSetMarksResult ==
  [][(orch_pc = "loop" /\ cancelled /\ orch_pc' = "returned")
       => result'.cancelled]_vars

\* C5: a unit that had begun its fetch or its write when cancellation was
\* signalled still runs to completion; it is not dropped unfinished.
C5_InFlightUnitsFinish ==
  \A i \in dropped : pc[i] \notin {"fetch"} \cup Saving

\* a step of a unit that finds the flag set at one of its checks, or stands
\* before them with the flag set
CancelledAtCheck(i) ==
  /\ (cancelled /\ pc[i] \in {"queued", "acquire", "check2"})
       => (pc'[i] # "fetch" /\ fetches'[i] = fetches[i])
  /\ (cancelled /\ pc[i] = "queued" /\ pc'[i] # "queued")
       => (pc'[i] = "done" /\ outcome'[i] = "Cancelled" /\ permits' = permits)
  /\ (cancelled /\ pc[i] = "check2" /\ pc'[i] # "check2")
       => (pc'[i] = "done" /\ outcome'[i] = "Cancelled" /\ permits' = permits + 1)
  /\ outcome'[i] = "Cancelled" => (fetches'[i] = 0 /\ body'[i] = "none")

\* C29: a unit that finds the flag set at either of its two checks records
\* Cancelled and makes no request and no write; at the first check it takes
\* no slot, at the second it gives its slot back without fetching; once the
\* flag is set, no unit that has not passed its second check starts a fetch
C29_CancelledUnitsDoNothing ==
  [][\A i \in Units : CancelledAtCheck(i)]_vars

\* with the flag set, two units were cancelled at a check while another,
\* past its checks before the flag was set, is fetching and holds the one
\* slot taken
C29_Witness ==
  /\ cancelled
  /\ orch_pc = "loop"
  /\ dl.limit = 2
  /\ Cardinality({i \in Units : outcome[i] = "Cancelled" /\ fetches[i] = 0}) = 2
  /\ \E i \in Units : pc[i] = "fetch"
  /\ permits = 1

\* the units between acquisition and outcome: they took a permit, have no
\* outcome yet and their future has not been dropped with the stream
BetweenAcquisitionAndOutcome ==
  {i \in Units \ dropped : pc[i] \notin {"queued", "acquire", "done"}}

\* C30: every unit releases its slot whatever its outcome: the number of
\* held slots always equals the number of units between acquisition and
\* outcome, and when a run completes no slot is still held
C30_SlotsReleased ==
  /\ dl.limit - permits = Cardinality(BetweenAcquisitionAndOutcome)
  /\ orch_pc = "returned" => permits = dl.limit

\* a run of three files at limit two has completed with one file
\* downloaded, one failed and one cancelled, and both slots are free
C30_Witness ==
  /\ orch_pc = "returned"
  /\ dl.limit = 2
  /\ \E i \in Units : outcome[i] = "Downloaded"
  /\ \E i \in Units : outcome[i] = "Failed"
  /\ \E i \in Units : outcome[i] = "Cancelled"
  /\ permits = 2

(***************************************************************************)
(* Claims about the listing service.                                       *)
(***************************************************************************)
\* the segments of the dir list_files was called with
StartParts == NonEmpty(SplitSlash(PercentDecode(url0.dir)))

\* the calls of one kind that list_files made
CallsOf(api) == {i \in DOMAIN api_log : api_log[i].api = api}

\* the probe was answered not-found
ProbeNotFound(call) ==
  call.api = "trees" /\ ~call.result.ok /\ call.result.err = "NotFound"

\* the call failed other than by the not-found that moves a segment
FailedOtherwise(call) == ~call.result.ok /\ ~ProbeNotFound(call)

\* the true ref takes k segments of the dir, and fewer than all of them
TrueRefTakes(k) ==
  /\ k < Len(StartParts)
  /\ remote.ref = JoinSlash(<<StartRef>> \o SubSeq(StartParts, 1, k))

\* the fast listing that succeeded, if one did
FastSuccess == {i \in CallsOf("trees") : api_log[i].result.ok}

\* C6: called with ref r and a dir of n segments, where the true ref is r
\* extended by the first k < n segments and no call fails other than by
\* not-found probes, list_files ends with ref = the true ref and dir = the
\* remaining segments, after at most n probes, the last of which is the
\* listing of the true ref at the remaining dir; it returns the files of
\* that listing, or the result of the fallback made for that ref and dir
C6_RefConverges ==
  \A k \in 0..MaxDirSegs + 1 :
    (/\ lf_pc = "done"
     /\ TrueRefTakes(k)
     /\ \A i \in CallsOf("trees") : ~FailedOtherwise(api_log[i]))
    => /\ url.git_ref = remote.ref
       /\ url.dir = JoinSlash(SubSeq(StartParts, k + 1, Len(StartParts)))
       /\ Cardinality(CallsOf("trees")) = k + 1
       /\ Cardinality(CallsOf("trees")) <= Len(StartParts)
       /\ \E i \in FastSuccess :
            /\ api_log[i].git_ref = remote.ref
            /\ api_log[i].dir = url.dir
            /\ api_log[i].result =
                 via_trees_api(url, TreesResponse(remote, remote.ref, "none"))
            /\ \/ lf_res = Ok(api_log[i].result.val.files)
               \/ /\ i < Len(api_log)
                  /\ api_log[Len(api_log)].api = "contents"
                  /\ api_log[Len(api_log)].git_ref = remote.ref
                  /\ api_log[Len(api_log)].dir = url.dir
                  /\ lf_res = api_log[Len(api_log)].result

\* a locator of three segments whose ref takes the first; the listing of the
\* rest is returned after two probes
C6_Witness ==
  /\ lf_pc = "done"
  /\ url0.dir = <<"d", "/", "d", "/", "s">>
  /\ TrueRefTakes(1)
  /\ url.git_ref = <<"r", "/", "d">>
  /\ url.dir = <<"d", "/", "s">>
  /\ Len(api_log) = 2
  /\ lf_res = Ok(<< <<"d", "/", "s", "/", "b">> >>)

\* C7: when every probe was answered not-found until no segment of dir was
\* left, list_files returns the not-found error, not a listing
C7_ExhaustedIsNotFound ==
  (/\ lf_pc = "done"
   /\ api_log # <<>>
   /\ dir_parts = <<>>
   /\ \A i \in DOMAIN api_log : ProbeNotFound(api_log[i]))
  => lf_res = Err("NotFound")

\* C8: a listing call that fails other than by the not-found of a probe is
\* the last call list_files makes, list_files returns its error, and main
\* ends on it: download_files is not called, nothing is fetched or written
C8_ListingErrorAborts ==
  \A i \in DOMAIN api_log :
    FailedOtherwise(api_log[i])
      => /\ i = Len(api_log)
         /\ lf_pc = "done"
         /\ lf_res = api_log[i].result
         /\ main_pc \in {"list", "failed"}
         /\ orch_pc = "idle"
         /\ \A u \in DOMAIN fetches : fetches[u] = 0
         /\ fs = fs0

\* main ended on an authorization error met on the second probe
C8_Witness ==
  /\ main_pc = "failed"
  /\ Len(api_log) = 2
  /\ ProbeNotFound(api_log[1])
  /\ api_log[2].result = Err("AuthRequired")
  /\ Len(dir_parts) >= 1
  /\ lf_res = Err("AuthRequired")

\* C9: when list_files has returned after a fast listing that was truncated
\* and gave no file, the exhaustive listing was called exactly once and its
\* result was returned; after a fast listing that gave a file it was not
\* called, truncated or not; and it is never called more than once
C9_FallbackOnce ==
  /\ Cardinality(CallsOf("contents")) <= 1
  /\ lf_pc = "done" =>
       \A i \in FastSuccess :
         /\ (api_log[i].result.val.files = <<>> /\ api_log[i].result.val.truncated)
              => /\ Cardinality(CallsOf("contents")) = 1
                 /\ api_log[Len(api_log)].api = "contents"
                 /\ lf_res = api_log[Len(api_log)].result
         /\ api_log[i].result.val.files # <<>>
              => /\ CallsOf("contents") = {}
                 /\ lf_res = Ok(api_log[i].result.val.files)

\* a truncated fast listing without a file of dir; the exhaustive listing
\* gave the two files
C9_Witness ==
  /\ lf_pc = "done"
  /\ Len(api_log) = 2
  /\ api_log[1].result = Ok([files |-> <<>>, truncated |-> TRUE])
  /\ api_log[2].api = "contents"
  /\ lf_res = Ok(<< <<"d", "/", "a">>, <<"d", "/", "s", "/", "b">> >>)

\* the tree the server showed for the true ref
ShownTree == SubSeq(FullTree(remote.leaves), 1, remote.shown)

\* the entry is a blob whose path is dir, a separator, and more
BlobUnder(e, dir) ==
  /\ e.type = "blob"
  /\ Len(e.path) > Len(dir)
  /\ SubSeq(e.path, 1, Len(dir) + 1) = dir \o <<Slash>>

\* the positions of the tree that hold a blob under dir
BlobsUnder(tree, dir) == {j \in DOMAIN tree : BlobUnder(tree[j], dir)}

\* C10: a successful fast listing gives exactly the paths of the blobs of
\* the returned tree that lie under dir (dir followed by a separator), each
\* once and in the order of the tree
C10_PrefixFilter ==
  \A i \in FastSuccess :
    LET files == api_log[i].result.val.files
        dir == api_log[i].dir
    IN /\ dir # <<>>
       /\ Len(files) = Cardinality(BlobsUnder(ShownTree, dir))
       /\ \E pos \in [DOMAIN files -> BlobsUnder(ShownTree, dir)] :
            /\ \A a, b \in DOMAIN files : a < b => pos[a] < pos[b]
            /\ \A a \in DOMAIN files : files[a] = ShownTree[pos[a]].path

\* dir d over a tree that also holds d's sub-tree, a submodule and d2/x
C10_Witness ==
  /\ lf_pc = "done"
  /\ url.dir = <<"d">>
  /\ \E j \in DOMAIN ShownTree : ShownTree[j].path = <<"d", "2", "/", "x">>
  /\ \E j \in DOMAIN ShownTree : ShownTree[j].type = "commit"
  /\ lf_res = Ok(<< <<"d", "/", "a">>, <<"d", "/", "s", "/", "b">> >>)
  /\ CallsOf("contents") = {}

\* the paths of the blobs of a tree, in its order
RECURSIVE BlobPaths(_)
BlobPaths(tree) ==
  IF tree = <<>> THEN <<>>
  ELSE IF Head(tree).type = "blob" THEN <<Head(tree).path>> \o BlobPaths(Tail(tree))
  ELSE BlobPaths(Tail(tree))

\* C11: called with an empty dir on a repository that has the ref, holds
\* entries and shows its whole tree, list_files has made the listing call for the ref when it
\* returns, and it returns every blob of the tree
C11_RootListsEverything ==
  (/\ lf_pc = "done"
   /\ url0.dir = <<>>
   /\ remote.ref = url0.git_ref
   /\ remote.leaves # {}
   /\ remote.shown = Len(FullTree(remote.leaves)))
  => /\ CallsOf("trees") # {}
     /\ lf_res = Ok(BlobPaths(FullTree(remote.leaves)))

(***************************************************************************)
(* Claims about resuming and about failures of single files.               *)
(***************************************************************************)
\* the location of the would-be output path of a unit: output_dir joined
\* with the suffix extracted from its file path
WouldBe(i) ==
  Location(normalize_path(
    JoinPath(dl.output_dir, extract_relative_path(dl.base_dir, dl.files[i]).val)))

\* the units whose would-be output path held a file when the run began
PreExisting ==
  {i \in Units : /\ extract_relative_path(dl.base_dir, dl.files[i]).ok
                 /\ IsFile(fs0, WouldBe(i))}

\* the content of the file at a location
Holds(f, loc, content) == \E x \in f.files : x.loc = loc /\ x.content = content

\* C12: with resume enabled, a unit whose would-be output path held a file
\* is never fetched and its file is never written, and it records Skipped
\* unless the flag was set before its checks; every other unit is not
\* skipped, it is fetched once it passed its checks and when it records
\* Downloaded its file holds the fetched content; a run that returns without
\* cancellation and without a failure has skipped = the number of files that
\* were there and downloaded = the number of the others
C12_ResumeSkips ==
  dl.resume =>
    /\ \A i \in PreExisting :
         /\ fetches[i] = 0
         /\ pc[i] \notin {"fetch"} \cup Saving
         /\ Holds(fs, WouldBe(i), "old")
         /\ outcome[i] \in {"none", "Skipped", "Cancelled"}
         /\ (pc[i] = "done" /\ ~cancelled) => outcome[i] = "Skipped"
    /\ \A i \in Units \ PreExisting :
         /\ outcome[i] # "Skipped"
         /\ outcome[i] \in {"Downloaded", "Failed"} => fetches[i] = 1
         /\ outcome[i] = "Downloaded" => Holds(fs, WouldBe(i), "new")
    /\ (orch_pc = "returned" /\ ~cancelled /\ ~result.cancelled /\ result.failed = 0)
         => /\ result.skipped = Cardinality(PreExisting)
            /\ result.downloaded = Len(dl.files) - Cardinality(PreExisting)

\* the error a failed unit met: the fetch's when no body was received,
\* save_file's otherwise
ErrorOf(i) ==
  IF body[i] = "none" THEN "DownloadFailed"
  ELSE IF SaveRejected(SaveCall(i)) THEN "PathTraversal"
  ELSE "IoError"

\* some per-file unit can take its next step, or the stream has ended
CanStep ==
  \/ \E i \in Units : pc[i] \in {"check2", "fetch"} \cup Saving
  \/ \E i \in Units : pc[i] = "acquire" /\ permits > 0
  \/ \E i \in Units : pc[i] = "queued" /\ Cardinality(InFlight) < ConcurrencyLimit
  \/ \A i \in Units : pc[i] = "done"

\* C13: a unit whose fetch or save failed is recorded as Failed, with one
\* entry of errors that holds its file path and its error, and errors holds
\* nothing else; a failure does not stop the run: while the loop polls the
\* stream some unit can step or the stream ends, and a run that returns
\* without cancellation has an outcome for every file
C13_FailureIsPerFile ==
  /\ Len(result.errors) = Cardinality(WithOutcome("Failed"))
  /\ \A i \in WithOutcome("Failed") :
       \E k \in DOMAIN result.errors : result.errors[k] = <<dl.files[i], ErrorOf(i)>>
  /\ \A i \in Units : (pc[i] = "done" /\ fetches[i] = 1) => outcome[i] \in {"Downloaded", "Failed"}
  /\ (StreamPolled /\ WithOutcome("Failed") # {}) => CanStep
  /\ (orch_pc = "returned" /\ ~cancelled /\ ~result.cancelled)
       => \A i \in Units : outcome[i] \in {"Downloaded", "Skipped", "Failed"}

\* an uncancelled run returned with a failed fetch, a failed save and a
\* download that completed after a failure was recorded
C13_Witness ==
  /\ orch_pc = "returned"
  /\ ~cancelled
  /\ Len(dl.files) = 3
  /\ outcome[1] = "Failed" /\ body[1] = "new"
  /\ outcome[2] = "Failed" /\ body[2] = "none"
  /\ outcome[3] = "Downloaded"
  /\ result.errors = << <<dl.files[1], "PathTraversal">>, <<dl.files[2], "DownloadFailed">> >>

(***************************************************************************)
(* Claims about anchor extraction.                                         *)
(***************************************************************************)
\* the components of the file path, as the text between its separators
Segs == SplitSlash(sv_in.file_path)

\* a path of names only: no empty piece, no "." and no ".."
PlainPath == \A k \in DOMAIN Segs : Segs[k] # <<>> /\ Segs[k] # CurDir /\ Segs[k] # ParentDir

\* the anchor is the k-th component of the file path
AnchorAt(k) == Segs[k] = sv_in.base_dir

\* the anchor is the k-th component and no earlier one
AnchorFirstAt(k) == AnchorAt(k) /\ \A j \in 1..(k - 1) : ~AnchorAt(j)

\* what extract_relative_path returns for the arguments of the call
Extracted == extract_relative_path(sv_in.base_dir, sv_in.file_path)

\* C14: for a non-empty anchor that is a whole component of a path of plain
\* names, followed by further components, extract_relative_path returns the
\* suffix of the path that starts at that component (its first occurrence)
C14_SuffixFromAnchor ==
  (sv_in.base_dir # <<>> /\ PlainPath)
  => \A k \in 1..(Len(Segs) - 1) :
       AnchorFirstAt(k) => Extracted = Ok(JoinSlash(SubSeq(Segs, k, Len(Segs))))

\* C15: for a non-empty anchor that is no whole component of a path of plain
\* names, extract_relative_path fails with PathTraversal
C15_AbsentAnchorFails ==
  (sv_in.base_dir # <<>> /\ PlainPath /\ \A k \in DOMAIN Segs : ~AnchorAt(k))
  => Extracted = Err("PathTraversal")

\* C16: for a non-empty anchor that is the final component of a path of
\* plain names, and no other component of it, extract_relative_path returns
\* the empty suffix
C16_FinalAnchorGivesEmpty ==
  (sv_in.base_dir # <<>> /\ PlainPath /\ AnchorFirstAt(Len(Segs)))
  => Extracted = Ok(<<>>)

\* the anchor is a component of the path (one of Path::components) and not
\* the last one
ProperComponent ==
  LET comps == Components(sv_in.file_path)
  IN \E k \in 1..(Len(comps) - 1) : comps[k] = sv_in.base_dir

\* C17: when the non-empty anchor is a component of the path with further
\* components after it and extract_relative_path returns a suffix, applying
\* extract_relative_path with the same anchor to that suffix returns the
\* same suffix
C17_ExtractIdempotent ==
  (sv_pc = "done" /\ sv_in.base_dir # <<>> /\ ProperComponent)
  => LET suffix == Extracted
     IN suffix.ok => extract_relative_path(sv_in.base_dir, suffix.val) = suffix

\* save_file was called with a path whose anchor lies below another
\* directory, and with one that is normalized before the search
C17_Witness ==
  /\ sv_pc = "done"
  /\ sv_in.base_dir = <<"s">>
  /\ sv_in.file_path = <<"e", "/", ".", "/", "s", "/", "e">>
  /\ ProperComponent
  /\ Extracted = Ok(<<"s", "/", "e">>)
  /\ extract_relative_path(sv_in.base_dir, <<"s", "/", "e">>) = Ok(<<"s", "/", "e">>)

(***************************************************************************)
(* Claims about writing inside the output directory.                       *)
(***************************************************************************)
\* the output directory has no "." and no ".." component
NormalizedRoot == ~needs_normalization(sv_in.output_dir)

\* the extracted suffix has no ".." component
SuffixStaysBelow(suffix) ==
  /\ suffix.ok
  /\ LET pieces == SplitSlash(suffix.val)
     IN \A k \in DOMAIN pieces : pieces[k] # ParentDir

\* save_file succeeded and returned the output directory joined with the
\* suffix, a path below the output directory; every directory on the way to
\* it exists and the file is there
SavedBelowRoot(suffix) ==
  /\ sv_res.ok
  /\ sv_res.val = Components(JoinPath(sv_in.output_dir, suffix.val))
  /\ IsPrefix(Components(sv_in.output_dir), sv_res.val)
  /\ \A n \in 1..(Len(sv_res.val) - 1) : IsDir(fs, SubSeq(sv_res.val, 1, n))
  /\ IsFile(fs, sv_res.val)

\* C18 as stated: for every normalized output directory and every extracted
\* suffix without a ".." component, save_file succeeds unless it meets an
\* I/O error
C18_AnySuffixSaved ==
  (sv_pc = "done" /\ sv_res # Err("IoError") /\ NormalizedRoot)
  => LET suffix == Extracted
     IN SuffixStaysBelow(suffix) => SavedBelowRoot(suffix)

\* what holds of the suffixes that do not begin with a separator: save_file
\* succeeds unless it meets an I/O error, creates the missing directories
\* and returns the output directory joined with the suffix, whose
\* components begin with those of the output directory
C18_RelativeSuffixSaved ==
  (sv_pc = "done" /\ sv_res # Err("IoError") /\ NormalizedRoot)
  => LET suffix == Extracted
     IN (SuffixStaysBelow(suffix) /\ ~StartsWith(suffix.val, <<Slash>>))
          => SavedBelowRoot(suffix)

\* C19: after save_file succeeded the file at the returned path holds the
\* content that was passed, and nothing else; every other file is as it was
C19_ContentWritten ==
  (sv_pc = "done" /\ sv_res.ok)
  => /\ \A f \in fs.files : f.loc = Location(sv_res.val) => f.content = sv_in.content
     /\ Holds(fs, Location(sv_res.val), sv_in.content)
     /\ {f \in fs.files : f.loc # Location(sv_res.val)}
          = {f \in fs0.files : f.loc # Location(sv_res.val)}

\* the file of an earlier download was replaced
C19_Witness ==
  /\ sv_pc = "done"
  /\ sv_res.ok
  /\ Holds(fs0, Location(sv_res.val), "old")
  /\ fs.files = {[loc |-> Location(sv_res.val), content |-> "new"]}

(***************************************************************************)
(* Claims about ParsedUrl::parse.                                          *)
(***************************************************************************)
\* a segment that is a name: not empty and not ".."
PlainSegment(seg) == seg # <<>> /\ seg # ParentDir

\* the locator is a URL whose path is an owner, a repository, the tree
\* marker, a ref token and then names; owner, repository and ref are not
\* the word of the blob marker
TreeLocator ==
  /\ IsUrl(pu_in)
  /\ Len(pu_in.segs) >= 4
  /\ \A k \in DOMAIN pu_in.segs : PlainSegment(pu_in.segs[k])
  /\ pu_in.segs[3] = TreeMarker
  /\ \A k \in {1, 2, 4} : pu_in.segs[k] # BlobMarker

\* C20: parse of a locator whose path is owner/repo, the tree marker, a ref
\* token and zero or more segments returns that owner and repo, the token
\* after the marker as ref and the remaining segments joined by "/" as dir
C20_TreeLocatorParsed ==
  (pu_pc = "done" /\ TreeLocator)
  => pu_res = Ok([owner |-> pu_in.segs[1], repo |-> pu_in.segs[2],
                  git_ref |-> Some(pu_in.segs[4]),
                  dir |-> JoinSlash(SubSeq(pu_in.segs, 5, Len(pu_in.segs)))])

\* the segments parse works on: the non-empty pieces of the URL's path
PathParts == NonEmpty(SplitSlash(UrlPath(pu_in.segs)))

\* parse has a reason other than the blob marker to reject the locator: no
\* owner and repository, or a tree marker without a ref
OtherwiseInvalid ==
  \/ Len(PathParts) < 2
  \/ Len(PathParts) = 3 /\ PathParts[3] = TreeMarker

\* C21: parse rejects with InvalidUrl every locator whose path has the blob
\* marker after owner/repo with a segment after it, and it rejects a locator
\* that is otherwise valid, with an owner and a repository of other names,
\* only when blob stands in the marker's place, right after owner/repo
C21_BlobMarkerRejected ==
  (pu_pc = "done" /\ IsUrl(pu_in))
  => /\ (Len(PathParts) >= 4 /\ PathParts[3] = BlobMarker) => pu_res = Err("InvalidUrl")
     /\ (~pu_res.ok /\ ~OtherwiseInvalid
           /\ PathParts[1] # BlobMarker /\ PathParts[2] # BlobMarker)
          => (Len(PathParts) >= 3 /\ PathParts[3] = BlobMarker)

\* the locator is a URL whose path is an owner, a repository and then names,
\* the first of which is neither marker; owner and repository are not the
\* word of the blob marker
PlainLocator ==
  /\ IsUrl(pu_in)
  /\ Len(pu_in.segs) >= 2
  /\ \A k \in DOMAIN pu_in.segs : PlainSegment(pu_in.segs[k])
  /\ \A k \in {1, 2} : pu_in.segs[k] # BlobMarker
  /\ Len(pu_in.segs) >= 3 => pu_in.segs[3] \notin {TreeMarker, BlobMarker}

\* C22: parse of a locator with no directory-listing marker returns no
\* explicit ref (needs_default_branch is true) and, as dir, every segment
\* after owner/repo joined by "/", the empty string for a bare owner/repo
C22_NoMarkerDefersRef ==
  (pu_pc = "done" /\ PlainLocator)
  => /\ pu_res.ok
     /\ needs_default_branch(pu_res.val)
     /\ pu_res.val.owner = pu_in.segs[1]
     /\ pu_res.val.repo = pu_in.segs[2]
     /\ pu_res.val.dir = JoinSlash(SubSeq(pu_in.segs, 3, Len(pu_in.segs)))

\* C22 for the locators none of whose segments is the word blob
C22_WithoutBlob ==
  (pu_pc = "done" /\ PlainLocator /\ \A k \in DOMAIN pu_in.segs : pu_in.segs[k] # BlobMarker)
  => /\ pu_res.ok
     /\ needs_default_branch(pu_res.val)
     /\ pu_res.val.dir = JoinSlash(SubSeq(pu_in.segs, 3, Len(pu_in.segs)))

\* C23: the result of parse does not depend on the hostname: the locator
\* with any other host in place of its own gives the same outcome, the same
\* owner, repo, ref and dir or a rejection
C23_HostIndependent ==
  (pu_pc = "done" /\ ValidHost(pu_in.host))
  => \A h \in Hosts :
       ValidHost(h)
       => /\ parse([pu_in EXCEPT !.host = h]).ok = pu_res.ok
          /\ pu_res.ok => parse([pu_in EXCEPT !.host = h]) = pu_res

\* a locator of a host other than g has been parsed to an owner, a
\* repository, a ref and a directory
C23_Witness ==
  /\ pu_pc = "done"
  /\ pu_in.host = <<"x">>
  /\ pu_res.ok
  /\ pu_res.val.git_ref = Some(<<"r">>)
  /\ pu_res.val.dir = <<"d">>

(***************************************************************************)
(* Claims about the run from the locator on.                               *)
(***************************************************************************)
\* C24: when the locator carries no explicit ref, the repository's default
\* branch is installed as the ref before the first listing call: every
\* listing call of the run names the default branch, none a guessed ref
C24_DefaultBranchInstalled ==
  (pu_pc = "done" /\ pu_res.ok /\ needs_default_branch(pu_res.val))
  => \A k \in DOMAIN api_log : api_log[k].git_ref = remote.default_branch

\* the text has no leading separator, no trailing separator and no empty
\* segment
Tidy(dir) ==
  \/ dir = <<>>
  \/ /\ dir[1] # Slash
     /\ dir[Len(dir)] # Slash
     /\ \A k \in 1..(Len(dir) - 1) : ~(dir[k] = Slash /\ dir[k + 1] = Slash)

\* C28: in every locator parse returns, and in every state list_files leaves
\* the locator in during ref disambiguation, dir has no leading separator,
\* no trailing separator and no empty segment
C28_DirTidy ==
  /\ (pu_pc = "done" /\ pu_res.ok) => Tidy(pu_res.val.dir)
  /\ lf_pc \in {"call", "trees", "contents", "done"} => Tidy(url.dir)

\* a locator written with an empty segment in its directory was parsed and
\* list_files has moved a segment of the directory into the ref
C28_Witness ==
  /\ pu_pc = "done"
  /\ \E k \in 5..Len(pu_in.segs) : pu_in.segs[k] = <<>>
  /\ lf_pc = "trees"
  /\ pu_res.val.git_ref.some
  /\ url.git_ref # url0.git_ref
  /\ url.dir # <<>>

(***************************************************************************)
(* Claims about the provider's calls.                                      *)
(***************************************************************************)
\* api_request has returned and the server had answered its request
ApiAnswered ==
  /\ rq_pc = "done"
  /\ rq_in.op = "api_request"
  /\ rq_in.response.send_ok

\* the rate-limit-exhausted indicator: X-RateLimit-Remaining is 0
Exhausted(resp) == resp.remaining = Some(<<"0">>)

\* the errors of the statuses that have one of their own: forbidden with
\* the indicator, forbidden without it, too many requests, not found
NamedStatusMapped(resp) ==
  /\ (resp.status = 403 /\ Exhausted(resp))
       => rq_res = ErrWith("RateLimited", OrUnknown(resp.reset))
  /\ (resp.status = 403 /\ ~Exhausted(resp)) => rq_res = ErrWith("AuthRequired", <<>>)
  /\ resp.status = 429 => rq_res = ErrWith("RateLimited", OrUnknown(resp.retry_after))
  /\ resp.status = 404
       => rq_res = ErrWith("NotFound", [owner |-> ProviderUrl.owner,
                                        repo |-> ProviderUrl.repo])

\* C25: api_request maps every non-success status to one error: forbidden
\* with the rate-limit-exhausted indicator to RateLimited with the reset
\* time, forbidden otherwise to AuthRequired, too many requests to
\* RateLimited with retry-after, not found to NotFound with owner and repo,
\* any other non-success status to the transport failure; a success status
\* gives no error
C25_StatusMapped ==
  ApiAnswered
  => /\ NamedStatusMapped(rq_in.response)
     /\ (NotSuccessStatus(rq_in.response.status)
         /\ rq_in.response.status \notin {403, 404, 429})
          => rq_res = ErrWith("DownloadFailed", rq_in.endpoint)
     /\ ~NotSuccessStatus(rq_in.response.status) => rq_res.ok

\* what api_request does: the four named statuses have their errors, every
\* other client or server error status (400-599) gives the transport
\* failure, and every other status gives the decoded body, or the
\* transport failure when the body does not decode
C25_ErrorStatusesMapped ==
  ApiAnswered
  => /\ NamedStatusMapped(rq_in.response)
     /\ (IsErrorStatus(rq_in.response.status)
         /\ rq_in.response.status \notin {403, 404, 429})
          => rq_res = ErrWith("DownloadFailed", rq_in.endpoint)
     /\ ~IsErrorStatus(rq_in.response.status)
          => rq_res = IF rq_in.response.decodes THEN Ok("json")
                      ELSE ErrWith("DownloadFailed", rq_in.endpoint)

\* download_file has returned, the first response had arrived with no error
\* status and its body could be read
FirstAnswered ==
  /\ rq_pc = "done"
  /\ rq_in.op = "download_file"
  /\ rq_in.first.send_ok
  /\ ~IsErrorStatus(rq_in.first.status)
  /\ rq_in.first.body.some

\* the first response is a pointer stub: its Content-Length is there and
\* lies in 128..140, and its body starts with the whole signature
PointerStub(first) ==
  /\ first.content_length.some
  /\ first.content_length.val \in 128..140
  /\ first.body.val.head = "signature"
  /\ first.body.val.len >= LfsPrefixLen

\* the requests sent to the media-resolution host
MediaRequests == {k \in DOMAIN sent : sent[k].host = "media.githubusercontent.com"}

\* C26: download_file sends the media-resolution request if and only if the
\* first response's Content-Length is in 128..140 and its body starts with
\* the signature; then it returns the second response's body, and in every
\* other case (length outside the window or missing, no signature) it
\* returns the first body and sends no second request
C26_MediaOnlyForPointer ==
  FirstAnswered
  => /\ MediaRequests # {} <=> PointerStub(rq_in.first)
     /\ PointerStub(rq_in.first)
          => /\ Len(sent) = 2
             /\ rq_res.ok => rq_res.val = rq_in.second.body.val
             /\ (rq_in.second.send_ok /\ ~IsErrorStatus(rq_in.second.status)
                 /\ rq_in.second.body.some) => rq_res.ok
     /\ ~PointerStub(rq_in.first)
          => /\ Len(sent) = 1
             /\ rq_res = Ok(rq_in.first.body.val)

\* a stub of 140 bytes by its header was followed to the media host and the
\* media body returned
C26_Witness ==
  /\ FirstAnswered
  /\ rq_in.first.content_length = Some(140)
  /\ Len(sent) = 2
  /\ rq_res.ok
  /\ rq_res.val.from = "media"

\* the request carries the credential as a bearer Authorization header
Carries(request, token) ==
  request.authorization = Some(<<"B", "e", "a", "r", "e", "r", " ">> \o token.val)

\* C27: when a bearer credential is supplied, every network call of the
\* run, the listing calls, the raw-content retrieval and the
\* media-resolution retrieval, carries it in the authorization header
C27_EveryCallCarriesToken ==
  (rq_pc = "done" /\ rq_in.token.some)
  => \A k \in DOMAIN sent : Carries(sent[k], rq_in.token)

\* C27 for the listing calls alone
C27_ListingCallsCarryToken ==
  (rq_pc = "done" /\ rq_in.token.some /\ rq_in.op = "api_request")
  => \A k \in DOMAIN sent : Carries(sent[k], rq_in.token)

(***************************************************************************)
(* Further claims about the listing service.                               *)
(***************************************************************************)
\* the segments of the locator as list_files has it: those of the ref, then
\* those of the dir
LocatorSegments(u) == SplitSlash(u.git_ref) \o NonEmpty(SplitSlash(u.dir))

\* the segments list_files started from: the ref's, then the decoded dir's
StartSegments == SplitSlash(url0.git_ref) \o StartParts

\* C31: throughout the ref disambiguation of list_files, the final state
\* with dir exhausted included, the segments of ref followed by those of dir
\* are the starting ref's followed by the starting decoded dir's: a
\* not-found probe moves the first dir segment to the end of ref, and no
\* segment is lost, duplicated or reordered
C31_SegmentsConserved ==
  lf_pc \in {"trees", "contents", "done"} => LocatorSegments(url) = StartSegments

\* C31 while a probe or the fallback is in flight, and at the return after
\* a listing was found
C31_ConservedUntilExhausted ==
  (lf_pc \in {"trees", "contents"} \/ (lf_pc = "done" /\ dir_parts # <<>>))
  => LocatorSegments(url) = StartSegments

(***************************************************************************)
(* Further claims about the path-safe writer.                              *)
(***************************************************************************)
\* C32: when save_file fails with PathTraversal, the anchor not found or
\* the containment check failed, it has created no directory and written no
\* file: the file system is as it was before the call
C32_RejectedWritesNothing ==
  (sv_pc = "done" /\ sv_res = Err("PathTraversal")) => fs = fs0

\* a path whose relative part was extracted and climbs out of the output
\* directory was rejected, and the earlier download is still all there is
C32_Witness ==
  /\ sv_pc = "done"
  /\ sv_res = Err("PathTraversal")
  /\ fs0 # EmptyFs
  /\ fs = fs0
  /\ Extracted.ok
  /\ needs_normalization(Extracted.val)

(***************************************************************************)
(* Further claims about the download orchestrator.                         *)
(***************************************************************************)
\* download_files has returned and every submitted unit has its outcome
AllSettled == orch_pc = "returned" /\ \A i \in Units : outcome[i] # "none"

\* C33: if no cancellation occurs and every fetch and write returns in the
\* end, download_files terminates for any number of files and any limit of
\* at least one: no unit waits for a slot forever and every submitted unit
\* reaches an outcome
C33_Terminates == <>(sigint # "none" \/ AllSettled)

\* a run of three files through a single slot has returned, uninterrupted,
\* with an outcome for each
C33_Witness ==
  /\ AllSettled
  /\ sigint = "none"
  /\ Len(dl.files) = 3
  /\ dl.limit = 1
  /\ \E i \in Units : outcome[i] = "Downloaded"

\* the entry of errors a failed unit leaves
EntryOf(i) == <<dl.files[i], ErrorOf(i)>>

\* failed counts the entries of errors, and every entry is that of a unit
\* that failed
ErrorsAreFailures ==
  /\ result.failed = Len(result.errors)
  /\ \A k \in DOMAIN result.errors :
       \E i \in WithOutcome("Failed") : result.errors[k] = EntryOf(i)

\* a step in which a unit becomes Cancelled leaves the result as it was
CancelledLeavesResult ==
  \A i \in Units :
    (outcome[i] # "Cancelled" /\ outcome'[i] = "Cancelled") => result' = result

\* C34: in every DownloadResult the run can reach, failed equals the length
\* of errors and each entry of errors pairs the path of a submitted file
\* with the error of that file's own failed fetch or save; a Cancelled
\* outcome changes no counter and adds no entry
C34_ErrorsMatchFailures == []ErrorsAreFailures /\ [][CancelledLeavesResult]_vars

\* a run returned with a failed fetch, a failed save and a cancelled unit,
\* two entries in errors
C34_Witness ==
  /\ orch_pc = "returned"
  /\ Len(dl.files) = 3
  /\ WithOutcome("Cancelled") # {}
  /\ \E i \in WithOutcome("Failed") : body[i] = "none"
  /\ \E i \in WithOutcome("Failed") : body[i] = "new"
  /\ result.failed = 2
  /\ Len(result.errors) = 2

(***************************************************************************)
(* Claims about the output paths of one run.                               *)
(***************************************************************************)
\* the suffix a unit's file path is mapped to
RelativeOf(i) == extract_relative_path(dl.base_dir, dl.files[i])

\* the location save_file writes a unit's file to (download.rs:100-102)
OutputOf(i) == Location(normalize_path(JoinPath(dl.output_dir, RelativeOf(i).val)))

\* C35: within one run, base_dir being the last segment of the resolved dir
\* and every listed path starting with the dir and a separator, distinct
\* listed paths are mapped by extract_relative_path to distinct output
\* paths, so no two units write the same output file: every unit whose
\* write ran left a file of its own
HasWritten == {i \in Units : pc[i] = "wrote" \/ outcome[i] = "Downloaded"}

C35_DistinctOutputs ==
  /\ \A i \in Units : \A j \in Units :
       dl.files[i] # dl.files[j] =>
         /\ RelativeOf(i).ok /\ RelativeOf(j).ok
         /\ RelativeOf(i).val # RelativeOf(j).val
         /\ OutputOf(i) # OutputOf(j)
  /\ \A i \in HasWritten : [loc |-> OutputOf(i), content |-> "new"] \in fs.files
  /\ Cardinality(fs.files) = Cardinality(HasWritten)

\* two files were written next to each other, below a dir whose first name
\* ends with the anchor's text, one of them in a directory named like the
\* anchor
C35_Witness ==
  /\ orch_pc = "returned"
  /\ dl.base_dir = <<"s">>
  /\ dl.files = << <<"x", "s", "/", "s", "/", "e">>,
                   <<"x", "s", "/", "s", "/", "s", "/", "e">> >>
  /\ outcome = <<"Downloaded", "Downloaded">>
  /\ Cardinality(fs.files) = 2

====
